---- MODULE Spec2Model ----
(***************************************************************************)
(* A model of AutoResume: the LaTeX validator (src/tools/latex_parser.py), *)
(* the job fetcher (src/tools/job_fetcher.py), the profile store           *)
(* (src/utils/user_profiles.py) and the agent's tools and run loop         *)
(* (src/agent/resume_agent.py).                                            *)
(*                                                                         *)
(* Python strings are TLA+ strings; positions are 1-based here and         *)
(* converted to Python's 0-based indices where the code prints them.       *)
(* Each component has its own specification (SpecValidate, SpecFetch,      *)
(* SpecStore, SpecAgent); the variables of the other components stay at    *)
(* their idle values.                                                      *)
(***************************************************************************)
EXTENDS Integers, Sequences, FiniteSets, TLC

VARIABLES
    \* ---- validator harness
    v_call,          \* the last validate_latex_syntax call: [content, result], or None
    r_call,          \* the read_latex_resume harness call: [content, result], or None
    \* ---- fetch_job_description: one call, step by step
    f_pc,            \* position in fetch_job_description
    f_url,           \* argument url
    f_use_browser,   \* argument use_browser
    html_content,    \* local html_content (None or a page)
    page_title,      \* local page_title
    needs_javascript,\* local needs_javascript
    f_result,        \* None, [kind |-> "raise", msg] or [kind |-> "return", job]
    pw,              \* _fetch_with_playwright: [pc, browser, context]
    f_log,           \* the strategies attempted so far, in order
    \* ---- profile store and agent
    files,           \* profiles_dir: file name -> stored profile, Corrupt or Absent
    now,             \* the clock behind datetime.now()
    s_last,          \* the last store operation and what it returned
    agent,           \* the ResumeAgent instance's fields
    disk,            \* the other files: path -> content, or NoFile
    a_last,          \* the last tool call or run step and what it returned
    a_hist,          \* history of the successful tool calls of the agent
    a_fresh          \* history: the content was retrieved since the last load

validateVars == <<v_call>>
parseVars    == <<r_call>>
fetchVars    == <<f_pc, f_url, f_use_browser, html_content, page_title,
                  needs_javascript, f_result, pw, f_log>>
storeVars    == <<files, now, s_last>>
agentVars    == <<agent, disk, a_last, a_hist, a_fresh>>
vars         == <<validateVars, parseVars, fetchVars, storeVars, agentVars>>

None    == [none |-> TRUE]        \* Python's None, where an object is expected
Absent  == [file |-> "absent"]    \* no profile file of that name exists
Corrupt == [file |-> "corrupt"]   \* a profile file whose text does not deserialize
NoFile  == "<no file>"            \* a path of the disk at which no file exists

---------------------------------------------------------------------------
(* Python string helpers *)

\* s[i] for a 1-based position i
Char(s, i) == SubSeq(s, i, i)

\* sub in s
Contains(s, sub) ==
    \E i \in 1..(Len(s) - Len(sub) + 1) : SubSeq(s, i, i + Len(sub) - 1) = sub

\* s.startswith(p)
StartsWith(s, p) == Len(s) >= Len(p) /\ SubSeq(s, 1, Len(p)) = p

\* n repetitions of a plain character
RECURSIVE Pad(_)
Pad(n) ==
    IF n <= 0 THEN ""
    ELSE IF n = 1 THEN "x"
    ELSE Pad(n \div 2) \o Pad(n - (n \div 2))

\* ', '.join(seq) and friends
RECURSIVE Join(_, _)
Join(seq, sep) ==
    IF Len(seq) = 0 THEN ""
    ELSE IF Len(seq) = 1 THEN seq[1]
    ELSE seq[1] \o sep \o Join(Tail(seq), sep)

---------------------------------------------------------------------------
(* src/tools/latex_parser.py : validate_latex_syntax *)

BeginDoc      == "\\begin{document}"
EndDoc        == "\\end{document}"
DocumentClass == "\\documentclass"

MissingEndMsg   == "Missing \\end{document}"
MissingBeginMsg == "Missing \\begin{document}"
MissingClassMsg == "Missing \\documentclass (might be okay for snippets)"

\* The positions of content that hold a brace or a backslash.  The loop of
\* lines 80-88 changes brace_depth only there, and the three markers the
\* tests of lines 94-100 look for all start with a backslash.
SpecialPositions(content) ==
    {i \in 1..Len(content) : Char(content, i) \in {"{", "}", "\\"}}

\* the positions of one of the two brace characters
BracePositions(content, marks, brace) ==
    {i \in marks : Char(content, i) = brace}

\* marker in content, for a marker that starts with a backslash
HasMarker(content, marks, marker) ==
    \E i \in marks :
        /\ i + Len(marker) - 1 <= Len(content)
        /\ SubSeq(content, i, i + Len(marker) - 1) = marker

\* the loop of lines 80-88 reporting the position counted from one
BraceScan_one_based(content, marks) ==
    LET opens    == BracePositions(content, marks, "{")
        closes   == BracePositions(content, marks, "}")
        depth(k) == Cardinality({i \in opens : i <= k})
                      - Cardinality({i \in closes : i <= k})
        neg      == {k \in closes : depth(k) < 0}
    IN IF neg = {}
       THEN [brk |-> -1, depth |-> depth(Len(content))]
       ELSE LET k == CHOOSE k \in neg : \A j \in neg : k <= j
            IN [brk |-> k, depth |-> depth(k)]

\* The loop of lines 80-88.  depth(k) is brace_depth after the loop body has
\* run for positions 1..k; the loop breaks at the first position where it is
\* negative.  brk is that position as the 0-based index the code prints, or
\* -1 when the loop ran to the end; depth is brace_depth after the loop.
BraceScan(content, marks) ==
    LET opens    == BracePositions(content, marks, "{")
        closes   == BracePositions(content, marks, "}")
        depth(k) == Cardinality({i \in opens : i <= k})
                      - Cardinality({i \in closes : i <= k})
        neg      == {k \in closes : depth(k) < 0}
    IN IF neg = {}
       THEN [brk |-> -1, depth |-> depth(Len(content))]
       ELSE LET k == CHOOSE k \in neg : \A j \in neg : k <= j
            IN [brk |-> k - 1, depth |-> depth(k)]

\* lines 86-91
BraceIssues(content, marks) ==
    LET scan == BraceScan(content, marks) IN
    (IF scan.brk >= 0
        THEN <<"Unmatched closing brace at position " \o ToString(scan.brk)>>
        ELSE <<>>)
    \o (IF scan.depth > 0
        THEN <<"Unmatched opening braces (depth: " \o ToString(scan.depth) \o ")">>
        ELSE <<>>)

\* lines 94-97
DocumentIssues(content, marks) ==
    LET begins == HasMarker(content, marks, BeginDoc)
        ends   == HasMarker(content, marks, EndDoc)
    IN IF begins /\ ~ends THEN <<MissingEndMsg>>
       ELSE IF ends /\ ~begins THEN <<MissingBeginMsg>>
       ELSE <<>>

\* lines 100-101
ClassIssues(content, marks) ==
    IF ~HasMarker(content, marks, DocumentClass) THEN <<MissingClassMsg>>
    ELSE <<>>

validate_latex_syntax(content) ==
    LET marks  == SpecialPositions(content)
        issues == BraceIssues(content, marks) \o DocumentIssues(content, marks)
                    \o ClassIssues(content, marks)
    IN [is_valid |-> Len(issues) = 0, issues |-> issues]

---------------------------------------------------------------------------
(* Inputs of the validator harness *)

MaxFrags == 3

Fragments == {"{", "}", "x", BeginDoc, EndDoc, DocumentClass}

RECURSIVE Texts(_)
Texts(n) ==
    IF n = 0 THEN {""}
    ELSE LET shorter == Texts(n - 1)
         IN shorter \cup {t \o f : t \in shorter, f \in Fragments}

ValidateIdle == v_call = None

\* A caller validates one text
ValidateCall ==
    /\ \E content \in Texts(MaxFrags) :
         v_call' = [content |-> content, result |-> validate_latex_syntax(content)]
    /\ UNCHANGED <<parseVars, fetchVars, storeVars, agentVars>>

---------------------------------------------------------------------------
(* Paths (pathlib) *)

Cwd == "/home/u"        \* the working directory Path.resolve() resolves against

\* the 1-based position of the last occurrence of the character c in s, or 0
LastIndexOf(s, c) ==
    LET at == {i \in 1..Len(s) : Char(s, i) = c}
    IN IF at = {} THEN 0 ELSE CHOOSE i \in at : \A j \in at : j <= i

\* Path(p).name: the final component
BaseName(p) == SubSeq(p, LastIndexOf(p, "/") + 1, Len(p))

\* str(Path(p).parent)
Parent(p) ==
    LET k == LastIndexOf(p, "/")
    IN IF k = 0 THEN "." ELSE IF k = 1 THEN "/" ELSE SubSeq(p, 1, k - 1)

\* Path(p).stem: the final component without its last suffix
Stem(p) ==
    LET name == BaseName(p)
        dot  == LastIndexOf(name, ".")
    IN IF dot <= 1 THEN name ELSE SubSeq(name, 1, dot - 1)

\* str(Path(p).resolve()) for paths without symlinks or dot components
Resolve(p) == IF StartsWith(p, "/") THEN p ELSE Cwd \o "/" \o p

\* s.replace(from, to) for a single character from
RECURSIVE Replace(_, _, _)
Replace(s, from, to) ==
    IF Len(s) = 0 THEN ""
    ELSE (IF Char(s, 1) = from THEN to ELSE Char(s, 1))
            \o Replace(Tail(s), from, to)

---------------------------------------------------------------------------
(* src/utils/user_profiles.py : UserProfile, UserProfileManager *)

\* UserProfile(user_id=..., name=..., resume_files=...): the other fields take
\* their defaults; both timestamps come from datetime.now()
UserProfile(user_id, name, resume_files, clock) ==
    [user_id      |-> user_id,
     name         |-> name,
     created_at   |-> clock,
     updated_at   |-> clock,
     experiences  |-> <<>>,
     skills       |-> <<>>,
     projects     |-> <<>>,
     education    |-> <<>>,
     preferences  |-> <<>>,
     notes        |-> <<>>,
     resume_files |-> resume_files]

\* _get_profile_path: the file name inside profiles_dir
SafeId(user_id) == Replace(Replace(user_id, "/", "_"), "\\", "_")
_get_profile_path(user_id) == SafeId(user_id) \o ".json"

\* the stem of a profile file, as find_profile_by_resume and list_profiles use it
FileStem(fname) == Stem(fname)

\* profile_exists
profile_exists(fs, user_id) == fs[_get_profile_path(user_id)] # Absent

\* load_profile: None when the file is missing or fails to deserialize
load_profile(fs, user_id) ==
    LET stored == fs[_get_profile_path(user_id)]
    IN IF stored = Absent THEN None
       ELSE IF stored = Corrupt THEN None
       ELSE stored

\* save_profile: refreshes updated_at and overwrites the user's file
SavedProfile(profile, clock) == [profile EXCEPT !.updated_at = clock]
save_profile(fs, profile, clock) ==
    [fs EXCEPT ![_get_profile_path(profile.user_id)] = SavedProfile(profile, clock)]

\* create_profile: builds the profile and saves it; returns [profile, files]
create_profile(fs, user_id, name, resume_path, clock) ==
    LET profile == UserProfile(user_id, name,
                               IF resume_path # "" THEN <<resume_path>> ELSE <<>>,
                               clock)
    IN [profile |-> SavedProfile(profile, clock),
        files   |-> save_profile(fs, profile, clock)]

\* the loops of lines 161-174 without the membership test: list.extend(new)
AppendAll(list, new) == list \o new

\* the loops of lines 161-174: append each element that is not yet present
RECURSIVE AppendIfAbsent(_, _)
AppendIfAbsent(list, new) ==
    IF Len(new) = 0 THEN list
    ELSE AppendIfAbsent(
            IF \E i \in 1..Len(list) : list[i] = Head(new)
               THEN list ELSE Append(list, Head(new)),
            Tail(new))

\* update_from_conversation assigning the lists instead of merging them: a
\* non-empty argument replaces the stored list
update_from_conversation_overwrite(fs, user_id, experiences, skills, notes, clock) ==
    LET loaded  == load_profile(fs, user_id)
        created == create_profile(fs, user_id, "", "", clock)
        profile == IF loaded = None THEN created.profile ELSE loaded
        fs1     == IF loaded = None THEN created.files ELSE fs
        merged  == [profile EXCEPT
                      !.experiences = IF Len(experiences) > 0
                                      THEN AppendIfAbsent(<<>>, experiences) ELSE @,
                      !.skills      = IF Len(skills) > 0
                                      THEN AppendIfAbsent(<<>>, skills) ELSE @,
                      !.notes       = IF Len(notes) > 0
                                      THEN AppendIfAbsent(<<>>, notes) ELSE @]
    IN save_profile(fs1, merged, clock)

\* update_from_conversation giving up on a file that does not deserialize
update_from_conversation_keeps_corrupt(fs, user_id, experiences, skills, notes, clock) ==
    IF fs[_get_profile_path(user_id)] = Corrupt THEN fs
    ELSE LET loaded  == load_profile(fs, user_id)
             created == create_profile(fs, user_id, "", "", clock)
             profile == IF loaded = None THEN created.profile ELSE loaded
             fs1     == IF loaded = None THEN created.files ELSE fs
             merged  == [profile EXCEPT
                           !.experiences = AppendIfAbsent(@, experiences),
                           !.skills      = AppendIfAbsent(@, skills),
                           !.notes       = AppendIfAbsent(@, notes)]
         IN save_profile(fs1, merged, clock)

\* update_from_conversation: the files after the call
update_from_conversation(fs, user_id, experiences, skills, notes, clock) ==
    LET loaded  == load_profile(fs, user_id)
        created == create_profile(fs, user_id, "", "", clock)
        profile == IF loaded = None THEN created.profile ELSE loaded
        fs1     == IF loaded = None THEN created.files ELSE fs
        merged  == [profile EXCEPT
                      !.experiences = AppendIfAbsent(@, experiences),
                      !.skills      = AppendIfAbsent(@, skills),
                      !.notes       = AppendIfAbsent(@, notes)]
    IN save_profile(fs1, merged, clock)

\* the inner loop of find_profile_by_resume comparing the paths as they are
\* written, without resolving them
ResumeMatches_unresolved(profile, resume_path) ==
    \E i \in 1..Len(profile.resume_files) :
        profile.resume_files[i] = resume_path

\* the inner loop of find_profile_by_resume: some saved path resolves to the
\* resolved resume_path
ResumeMatches(profile, resume_path) ==
    \E i \in 1..Len(profile.resume_files) :
        Resolve(profile.resume_files[i]) = Resolve(resume_path)

\* a scan of find_profile_by_resume that ends at the first file that does
\* not load
RECURSIVE FindInOrder_stops_at_unloadable(_, _, _)
FindInOrder_stops_at_unloadable(fs, order, resume_path) ==
    IF Len(order) = 0 THEN None
    ELSE LET profile == load_profile(fs, FileStem(Head(order)))
         IN IF profile = None THEN None
            ELSE IF ResumeMatches(profile, resume_path) THEN profile
            ELSE FindInOrder_stops_at_unloadable(fs, Tail(order), resume_path)

\* find_profile_by_resume for one order in which glob("*.json") yields the files
RECURSIVE FindInOrder(_, _, _)
FindInOrder(fs, order, resume_path) ==
    IF Len(order) = 0 THEN None
    ELSE LET profile == load_profile(fs, FileStem(Head(order)))
         IN IF profile # None /\ ResumeMatches(profile, resume_path)
            THEN profile
            ELSE FindInOrder(fs, Tail(order), resume_path)

\* the files glob("*.json") finds
ExistingFiles(fs) == {fname \in DOMAIN fs : fs[fname] # Absent}

\* the orders in which glob may yield a set of files (directory order)
GlobOrders(S) ==
    {order \in [1..Cardinality(S) -> S] :
        \A i, j \in 1..Cardinality(S) : i # j => order[i] # order[j]}

\* list_profiles for one glob order
RECURSIVE ListInOrder(_, _)
ListInOrder(fs, order) ==
    IF Len(order) = 0 THEN <<>>
    ELSE LET profile == load_profile(fs, FileStem(Head(order)))
         IN (IF profile # None THEN <<profile>> ELSE <<>>)
              \o ListInOrder(fs, Tail(order))

---------------------------------------------------------------------------
(* The profile store driven through its public methods *)

MaxClock == 3     \* the store operations that write are counted up to this

UserIds     == {"cv", "a/b", "a_b"}
ResumePaths == {"cv.tex", "/home/u/cv.tex", "/work/cv.tex"}
FileNames   == {_get_profile_path(u) : u \in UserIds}

\* the (experiences, skills, notes) arguments update_from_conversation is given
Merges ==
    {[experiences |-> <<>>, skills |-> <<"Python">>, notes |-> <<>>],
     [experiences |-> <<>>, skills |-> <<"Python", "Python">>, notes |-> <<"n1">>],
     [experiences |-> <<[title |-> "Dev"]>>, skills |-> <<"SQL", "Python">>,
      notes |-> <<>>],
     [experiences |-> <<>>, skills |-> <<>>, notes |-> <<"n2", "n1">>]}

StoreInit ==
    /\ files = [fname \in FileNames |-> Absent]
    /\ now = 0
    /\ s_last = [op |-> "init"]

\* create_profile(user_id, resume_path=...)
CreateProfile ==
    /\ now < MaxClock
    /\ \E user_id \in UserIds, resume_path \in ResumePaths \cup {""} :
         LET made == create_profile(files, user_id, "", resume_path, now + 1)
         IN /\ files' = made.files
            /\ s_last' = [op |-> "create_profile", user_id |-> user_id,
                          result |-> made.profile]
    /\ now' = now + 1
    /\ UNCHANGED <<validateVars, parseVars, fetchVars, agentVars>>

\* save_profile(profile) with a profile object the caller got from the store
SaveProfile ==
    /\ now < MaxClock
    /\ s_last.op \in {"create_profile", "load_profile", "find_profile_by_resume"}
    /\ s_last.result # None
    /\ files' = save_profile(files, s_last.result, now + 1)
    /\ s_last' = [op |-> "save_profile", user_id |-> s_last.result.user_id,
                  result |-> None]
    /\ now' = now + 1
    /\ UNCHANGED <<validateVars, parseVars, fetchVars, agentVars>>

\* load_profile(user_id)
LoadProfile ==
    /\ \E user_id \in UserIds :
         s_last' = [op |-> "load_profile", user_id |-> user_id,
                    result |-> load_profile(files, user_id)]
    /\ UNCHANGED <<files, now, validateVars, parseVars, fetchVars, agentVars>>

\* update_from_conversation(user_id, experiences, skills, notes)
UpdateFromConversation ==
    /\ now < MaxClock
    /\ \E user_id \in UserIds, m \in Merges :
         /\ files' = update_from_conversation(files, user_id, m.experiences,
                                              m.skills, m.notes, now + 1)
         /\ s_last' = [op |-> "update_from_conversation", user_id |-> user_id,
                       merge |-> m, result |-> None,
                       prior |-> files[_get_profile_path(user_id)]]
    /\ now' = now + 1
    /\ UNCHANGED <<validateVars, parseVars, fetchVars, agentVars>>

\* find_profile_by_resume(resume_path); glob yields the files in some order
FindProfileByResume ==
    /\ \E resume_path \in ResumePaths, order \in GlobOrders(ExistingFiles(files)) :
         s_last' = [op |-> "find_profile_by_resume", resume_path |-> resume_path,
                    result |-> FindInOrder(files, order, resume_path)]
    /\ UNCHANGED <<files, now, validateVars, parseVars, fetchVars, agentVars>>

\* list_profiles()
ListProfiles ==
    /\ \E order \in GlobOrders(ExistingFiles(files)) :
         s_last' = [op |-> "list_profiles", result |-> ListInOrder(files, order)]
    /\ UNCHANGED <<files, now, validateVars, parseVars, fetchVars, agentVars>>

\* The environment: a profile file is damaged on disk between two sessions
DamageFile ==
    /\ now < MaxClock
    /\ \E fname \in FileNames :
         /\ files[fname] \notin {Absent, Corrupt}
         /\ files' = [files EXCEPT ![fname] = Corrupt]
         /\ s_last' = [op |-> "damage", file |-> fname]
    /\ now' = now + 1
    /\ UNCHANGED <<validateVars, parseVars, fetchVars, agentVars>>

---------------------------------------------------------------------------
(* src/tools/latex_parser.py : read_latex_resume, write_latex_resume;
   src/tools/job_fetcher.py : read_job_url_from_file *)

\* content.find(sub): the 1-based position of the first occurrence, or 0
Find(content, sub) ==
    LET at == {i \in 1..(Len(content) - Len(sub) + 1) :
                  SubSeq(content, i, i + Len(sub) - 1) = sub}
    IN IF at = {} THEN 0 ELSE CHOOSE i \in at : \A j \in at : i <= j

\* open(file_path, 'r') finds a file; relative paths resolve against Cwd
FileExists(d, file_path) ==
    Resolve(file_path) \in DOMAIN d /\ d[Resolve(file_path)] # NoFile

\* lines 29-36 keeping the whole text as preamble when there is no marker
SplitPreamble_text_is_preamble(content) ==
    LET doc_start == Find(content, BeginDoc)
    IN IF doc_start = 0
       THEN [preamble |-> content, body |-> content]
       ELSE [preamble |-> SubSeq(content, 1, doc_start - 1),
             body     |-> SubSeq(content, doc_start, Len(content))]

\* lines 29-36 with the whole text searched for sections
SplitPreamble_whole_text_is_body(content) ==
    LET doc_start == Find(content, BeginDoc)
    IN IF doc_start = 0
       THEN [preamble |-> "", body |-> content]
       ELSE [preamble |-> SubSeq(content, 1, doc_start - 1),
             body     |-> content]

\* read_latex_resume lines 29-36 on the text of the file: preamble and body
SplitPreamble(content) ==
    LET doc_start == Find(content, BeginDoc)
    IN IF doc_start = 0
       THEN [preamble |-> "", body |-> content]
       ELSE [preamble |-> SubSeq(content, 1, doc_start - 1),
             body     |-> SubSeq(content, doc_start, Len(content))]

\* whitespace as str.strip() sees it
IsSpace(c) == c \in {" ", "\n", "\t", "\r"}

RECURSIVE LStrip(_)
LStrip(s) == IF Len(s) > 0 /\ IsSpace(Char(s, 1)) THEN LStrip(Tail(s)) ELSE s

RECURSIVE RStrip(_)
RStrip(s) ==
    IF Len(s) > 0 /\ IsSpace(Char(s, Len(s)))
    THEN RStrip(SubSeq(s, 1, Len(s) - 1)) ELSE s

Strip(s) == RStrip(LStrip(s))

\* s[i:i+1]: the character at a 1-based position, empty past the end
CharAt(s, i) == IF 1 <= i /\ i <= Len(s) THEN Char(s, i) ELSE ""

\* the literal the section_pattern of line 40 starts with and looks ahead for
SectionCmd == "\\section"

\* the first position >= from at which \section occurs in body, or 0
NextSectionCmd(body, from) ==
    LET at == {i \in from..(Len(body) - Len(SectionCmd) + 1) :
                  SubSeq(body, i, i + Len(SectionCmd) - 1) = SectionCmd}
    IN IF at = {} THEN 0 ELSE CHOOSE i \in at : \A j \in at : i <= j

\* \\section\*?\{([^}]+)\} tried at a position p where \section occurs: an
\* optional star, an opening brace, one or more characters other than '}',
\* and the first '}' after them.  close is the position of that '}'.
HeadingAt(body, p) ==
    LET q      == p + Len(SectionCmd)
        open   == IF CharAt(body, q) = "*" THEN q + 1 ELSE q
        closes == {k \in (open + 1)..Len(body) : Char(body, k) = "}"}
        close  == IF closes = {} THEN 0
                  ELSE CHOOSE k \in closes : \A j \in closes : k <= j
    IN [ok    |-> CharAt(body, open) = "{" /\ close > open + 1,
        name  |-> IF close > open + 1 THEN SubSeq(body, open + 1, close - 1) ELSE "",
        close |-> close]

\* the first position >= from at which the whole pattern matches, or 0
RECURSIVE NextHeading(_, _)
NextHeading(body, from) ==
    LET p == NextSectionCmd(body, from)
    IN IF p = 0 THEN 0
       ELSE IF HeadingAt(body, p).ok THEN p
       ELSE NextHeading(body, p + 1)

\* re.finditer(section_pattern, body, re.DOTALL) from position from: the
\* matches in order, each with group(1), group(2) and its extent.  (.*?) with
\* the lookahead (?=\\section|\Z) takes the text up to the next occurrence of
\* \section, or to the end of body.
RECURSIVE finditer(_, _)
finditer(body, from) ==
    LET p == NextHeading(body, from)
    IN IF p = 0 THEN <<>>
       ELSE LET heading == HeadingAt(body, p)
                next    == NextSectionCmd(body, heading.close + 1)
                end     == IF next = 0 THEN Len(body) + 1 ELSE next
            IN <<[start  |-> p,
                  end    |-> end,
                  group1 |-> heading.name,
                  group2 |-> SubSeq(body, heading.close + 1, end - 1)]>>
               \o finditer(body, end)

\* sections[section_name] = section_content on a dict
SetItem(sections, key, value) ==
    [k \in DOMAIN sections \cup {key} |->
        IF k = key THEN value ELSE sections[k]]

\* the loop of lines 43-46 over the matches, from the dict sections
RECURSIVE SectionsLoop(_, _)
SectionsLoop(sections, matches) ==
    IF Len(matches) = 0 THEN sections
    ELSE SectionsLoop(SetItem(sections, Head(matches).group1,
                              Strip(Head(matches).group2)),
                      Tail(matches))

\* lines 39-46: the dict sections built from body
ExtractSections(body) == SectionsLoop(<<>>, finditer(body, 1))

\* read_latex_resume: None stands for the exception open() raises
read_latex_resume(d, file_path) ==
    IF ~FileExists(d, file_path) THEN None
    ELSE LET content == d[Resolve(file_path)]
             split   == SplitPreamble(content)
         IN [raw_content |-> content,
             sections    |-> ExtractSections(split.body),
             preamble    |-> split.preamble]

\* open(file_path, 'w') succeeds when the directory of the file exists
CanWrite(d, file_path) == Resolve(file_path) \in DOMAIN d

\* write_latex_resume: the disk after open(file_path, 'w') and f.write(content)
write_latex_resume(d, file_path, content) ==
    [d EXCEPT ![Resolve(file_path)] = content]

\* read_job_url_from_file without the test of lines 241-242
read_job_url_from_file_unchecked(d, file_path) ==
    IF ~FileExists(d, file_path)
    THEN [ok |-> FALSE, error |-> "No such file or directory"]
    ELSE [ok |-> TRUE, url |-> Strip(d[Resolve(file_path)])]

\* read_job_url_from_file: [ok, url] or [ok |-> FALSE, error]
read_job_url_from_file(d, file_path) ==
    IF ~FileExists(d, file_path)
    THEN [ok |-> FALSE, error |-> "No such file or directory"]
    ELSE LET url == Strip(d[Resolve(file_path)])
         IN IF ~(StartsWith(url, "http://") \/ StartsWith(url, "https://"))
            THEN [ok |-> FALSE, error |-> "Invalid URL in file: " \o url]
            ELSE [ok |-> TRUE, url |-> url]

---------------------------------------------------------------------------
(* Inputs of the parser harness *)

MaxParts == 4

ResumeParts ==
    {"\\section{A}", "\\section*{B}", SectionCmd, "{", " x ", "y", BeginDoc}

RECURSIVE ResumeTexts(_)
ResumeTexts(n) ==
    IF n = 0 THEN {""}
    ELSE LET shorter == ResumeTexts(n - 1)
         IN shorter \cup {t \o part : t \in shorter, part \in ResumeParts}

\* a disk that holds one resume file
ResumeFile == Cwd \o "/resume.tex"
DiskWith(content) == [path \in {ResumeFile} |-> content]

ParseIdle == r_call = None

\* a resume file is on the disk and has not been read yet
ParseInit ==
    r_call \in {[content |-> content, result |-> None] :
                   content \in ResumeTexts(MaxParts)}

\* A caller reads the resume file
ReadCall ==
    /\ r_call # None
    /\ r_call.result = None
    /\ r_call' = [r_call EXCEPT !.result =
                     read_latex_resume(DiskWith(r_call.content), "resume.tex")]
    /\ UNCHANGED <<validateVars, fetchVars, storeVars, agentVars>>

---------------------------------------------------------------------------
(* src/agent/resume_agent.py : ResumeAgent *)

MinContentLen == 500      \* line 247: shorter new_content is refused

\* os.path.join(dir, name)
PathJoin(dir, name) == IF dir = "/" THEN "/" \o name ELSE dir \o "/" \o name

\* a directory as the disk names it
AbsDir(dir) == IF dir = "." THEN Cwd ELSE Resolve(dir)

\* the *.cls files of a directory of the disk
ClsFiles(d, dir) ==
    {path \in DOMAIN d :
        /\ d[path] # NoFile
        /\ Parent(path) = AbsDir(dir)
        /\ Len(path) >= 4 /\ SubSeq(path, Len(path) - 3, Len(path)) = ".cls"}

\* the loop of lines 284-287, all files copied: shutil.copy for each .cls file
CopyCls(d, srcs, output_dir) ==
    [path \in DOMAIN d |->
        IF \E src \in srcs : path = PathJoin(AbsDir(output_dir), BaseName(src))
        THEN d[CHOOSE src \in srcs :
                  path = PathJoin(AbsDir(output_dir), BaseName(src))]
        ELSE d[path]]

\* __init__, lines 75-85
NewAgent ==
    [pc                     |-> "idle",
     resume_content         |-> None,
     resume_path            |-> "",
     full_content_retrieved |-> FALSE,
     current_profile        |-> None,
     conversation_notes     |-> <<>>,
     output_resume_path     |-> "",
     calls                  |-> 0,
     runs                   |-> 0]

NotRetrievedMsg == "ERROR: You must call get_full_resume_content() FIRST!"
NoContentMsg    == "ERROR: You must provide the new_content parameter!"
TooShortMsg(n)  == "ERROR: new_content is too short (" \o ToString(n) \o " chars)!"
ValidationFailedMsg(issues) ==
    "LaTeX validation failed. Issues: " \o Join(issues, ", ")
SavedMsg(path) == "Resume saved successfully to " \o path

SaveErrorMsg(why) == "Error saving resume: " \o why
CopiedMsg(path, names) ==
    SavedMsg(path) \o "\nCopied formatting files: " \o names

\* the names of a set of files, joined in some order of the glob
RECURSIVE JoinNames(_)
JoinNames(srcs) ==
    IF srcs = {} THEN ""
    ELSE LET src == CHOOSE x \in srcs : TRUE
         IN IF srcs = {src} THEN BaseName(src)
            ELSE BaseName(src) \o ", " \o JoinNames(srcs \ {src})

\* lines 274-292 with the copy left out: success is reported after the write
CopyStep_without_copy(a, d, output_path) ==
    [disk |-> d, result |-> SavedMsg(output_path)]

\* lines 274-292: the copy of the .cls files after the write, and the message.
\* shutil.copy raises SameFileError when source and destination are one file.
CopyStep(a, d, output_path) ==
    IF a.resume_path = "" THEN [disk |-> d, result |-> SavedMsg(output_path)]
    ELSE LET resume_dir == Parent(a.resume_path)
             output_dir == Parent(output_path)
             cls_files  == ClsFiles(d, resume_dir)
         IN IF cls_files # {} /\ AbsDir(resume_dir) = AbsDir(output_dir)
            THEN [disk |-> d, result |-> SaveErrorMsg("are the same file")]
            ELSE IF cls_files # {}
            THEN [disk   |-> CopyCls(d, cls_files, output_dir),
                  result |-> CopiedMsg(output_path, JoinNames(cls_files))]
            ELSE [disk |-> d, result |-> SavedMsg(output_path)]

\* save_modified_resume without the validation of lines 264-269: whatever
\* passes the length check is written
save_modified_resume_unvalidated(a, d, new_content, output_path_arg) ==
    IF ~a.full_content_retrieved
    THEN [disk |-> d, result |-> NotRetrievedMsg]
    ELSE LET output_path == IF output_path_arg = "" THEN a.output_resume_path
                            ELSE output_path_arg
         IN IF new_content = ""
            THEN [disk |-> d, result |-> NoContentMsg]
            ELSE IF Len(new_content) < MinContentLen
            THEN [disk |-> d, result |-> TooShortMsg(Len(new_content))]
            ELSE IF ~CanWrite(d, output_path)
            THEN [disk |-> d,
                  result |-> SaveErrorMsg("No such file or directory")]
            ELSE CopyStep(a, write_latex_resume(d, output_path, new_content),
                          output_path)

\* save_modified_resume without the workflow check of lines 211-227
save_modified_resume_any_time(a, d, new_content, output_path_arg) ==
    LET output_path == IF output_path_arg = "" THEN a.output_resume_path
                       ELSE output_path_arg
    IN IF new_content = ""
       THEN [disk |-> d, result |-> NoContentMsg]
       ELSE IF Len(new_content) < MinContentLen
       THEN [disk |-> d, result |-> TooShortMsg(Len(new_content))]
       ELSE LET checked == validate_latex_syntax(new_content)
            IN IF ~checked.is_valid
               THEN [disk |-> d, result |-> ValidationFailedMsg(checked.issues)]
               ELSE IF ~CanWrite(d, output_path)
               THEN [disk |-> d,
                     result |-> SaveErrorMsg("No such file or directory")]
               ELSE CopyStep(a, write_latex_resume(d, output_path, new_content),
                             output_path)

\* save_modified_resume(new_content, output_path), lines 211-294; an
\* output_path of "" is the default None.  Returns the disk and the message.
save_modified_resume(a, d, new_content, output_path_arg) ==
    IF ~a.full_content_retrieved
    THEN [disk |-> d, result |-> NotRetrievedMsg]
    ELSE LET output_path == IF output_path_arg = "" THEN a.output_resume_path
                            ELSE output_path_arg
         IN IF new_content = ""
            THEN [disk |-> d, result |-> NoContentMsg]
            ELSE IF Len(new_content) < MinContentLen
            THEN [disk |-> d, result |-> TooShortMsg(Len(new_content))]
            ELSE LET checked == validate_latex_syntax(new_content)
                 IN IF ~checked.is_valid
                    THEN [disk |-> d, result |-> ValidationFailedMsg(checked.issues)]
                    ELSE IF ~CanWrite(d, output_path)
                    THEN [disk |-> d,
                          result |-> SaveErrorMsg("No such file or directory")]
                    ELSE CopyStep(a, write_latex_resume(d, output_path, new_content),
                                  output_path)

\* str.split(",") followed by strip() of every part
RECURSIVE SplitComma(_)
SplitComma(s) ==
    LET k == Find(s, ",")
    IN IF k = 0 THEN <<Strip(s)>>
       ELSE <<Strip(SubSeq(s, 1, k - 1))>> \o SplitComma(SubSeq(s, k + 1, Len(s)))

\* save_user_info lines 364-372: the notes appended; "" is the default None
NotesFrom(experiences, skills, note) ==
    (IF experiences # "" THEN <<"Experience: " \o experiences>> ELSE <<>>)
    \o (IF skills # "" THEN <<"Skills: " \o Join(SplitComma(skills), ", ")>>
        ELSE <<>>)
    \o (IF note # "" THEN <<note>> ELSE <<>>)

---------------------------------------------------------------------------
(* The agent driven by run() and by the tool calls the LLM chooses *)

MaxCalls == 4     \* tool calls in all (the code's max_iterations, bounded)
MaxRuns  == 2     \* runs of ResumeAgent.run

ValidDoc ==
    DocumentClass \o "{cv}" \o BeginDoc \o Pad(MinContentLen) \o EndDoc

\* what the LLM may pass to save_modified_resume; an output_path of "" is
\* the default None
SaveArgs ==
    {[new_content |-> "", output_path |-> ""],
     [new_content |-> "Modified skills", output_path |-> ""],
     [new_content |-> ValidDoc, output_path |-> ""],
     [new_content |-> ValidDoc, output_path |-> "/nodir/resume.tex"],
     [new_content |-> ValidDoc \o "}", output_path |-> ""],
     [new_content |-> "{" \o BeginDoc \o Pad(MinContentLen), output_path |-> ""],
     [new_content |-> BeginDoc \o Pad(MinContentLen) \o EndDoc,
      output_path |-> ""]}

ResumeText1 == DocumentClass \o "{cv}" \o BeginDoc \o "one" \o EndDoc
ResumeText2 == DocumentClass \o "{cv}" \o BeginDoc \o "two" \o EndDoc

\* The files of the disk.  A path outside this domain lies in a directory
\* that does not exist.
DiskInit ==
    ("/home/u/cv.tex"  :> ResumeText1) @@
    ("/work/cv.tex"    :> ResumeText2) @@
    ("/home/u/job.txt" :> "https://example.org/job\n") @@
    ("/home/u/bad.txt" :> "example.org/job") @@
    ("/home/u/http.txt" :> "  http://example.org/job\t\n") @@
    ("/home/u/upper.txt" :> "HTTPS://example.org/job") @@
    ("/home/u/empty.txt" :> " \n") @@
    ("/home/u/style.cls" :> "cls") @@
    ("/home/u/resume_modified.tex" :> NoFile) @@
    ("/out/resume_modified.tex" :> NoFile) @@
    ("/out/style.cls" :> NoFile)

\* the arguments of run(); an output_dir of "" is the default None
RunArgs ==
    {[resume_path |-> "/home/u/cv.tex", job_url_file |-> "/home/u/job.txt",
      output_dir |-> "/out"],
     [resume_path |-> "cv.tex", job_url_file |-> "/home/u/http.txt",
      output_dir |-> ""],
     [resume_path |-> "/work/cv.tex", job_url_file |-> "/home/u/job.txt",
      output_dir |-> "/out"],
     [resume_path |-> "/home/u/cv.tex", job_url_file |-> "/home/u/bad.txt",
      output_dir |-> "/out"],
     [resume_path |-> "/home/u/cv.tex", job_url_file |-> "/home/u/upper.txt",
      output_dir |-> "/out"],
     [resume_path |-> "/home/u/cv.tex", job_url_file |-> "/home/u/empty.txt",
      output_dir |-> "/out"],
     [resume_path |-> "/home/u/cv.tex", job_url_file |-> "/home/u/nojob.txt",
      output_dir |-> "/out"]}
ReadPaths == {"/home/u/cv.tex", "/work/cv.tex", "/missing/cv.tex"}
UserInfos ==
    {[experiences |-> "", skills |-> "React , Docker", note |-> "Prefers bullets"]}

AgentInit ==
    /\ agent = NewAgent
    /\ disk = DiskInit
    /\ a_last = [op |-> "init"]
    /\ a_hist = {}
    /\ a_fresh = FALSE

\* run(), lines 503-543: up to the agent invocation
RunStart ==
    /\ agent.pc = "idle"
    /\ agent.runs < MaxRuns
    /\ \E args \in RunArgs, order \in GlobOrders(ExistingFiles(files)) :
         LET resume_path  == args.resume_path
             job_url_file == args.job_url_file
             output_dir == IF args.output_dir = "" THEN Parent(job_url_file)
                           ELSE args.output_dir
             started == [agent EXCEPT
                           !.output_resume_path =
                               PathJoin(output_dir, "resume_modified.tex"),
                           !.runs = @ + 1]
             job_url == read_job_url_from_file(disk, job_url_file)
             resume_abs_path == Resolve(resume_path)
             found == FindInOrder(files, order, resume_abs_path)
             made  == create_profile(files, Stem(resume_path), "",
                                     resume_abs_path, now + 1)
         IN IF ~job_url.ok
            THEN /\ agent' = started
                 /\ a_last' = [op |-> "run", resume_path |-> resume_path,
                               job_url_file |-> job_url_file,
                               result |-> [error |-> "Failed to read job URL: "
                                                       \o job_url.error]]
                 /\ UNCHANGED <<files, now>>
            ELSE IF found # None
            THEN /\ agent' = [started EXCEPT !.pc = "invoking",
                                             !.current_profile = found]
                 /\ a_last' = [op |-> "run", resume_path |-> resume_path,
                               job_url_file |-> job_url_file,
                               result |-> [profile |-> "found",
                                           job_url |-> job_url.url]]
                 /\ UNCHANGED <<files, now>>
            ELSE /\ agent' = [started EXCEPT !.pc = "invoking",
                                             !.current_profile = made.profile]
                 /\ files' = made.files
                 /\ now' = now + 1
                 /\ a_last' = [op |-> "run", resume_path |-> resume_path,
                               job_url_file |-> job_url_file,
                               result |-> [profile |-> "created",
                                           job_url |-> job_url.url]]
    /\ UNCHANGED <<disk, a_hist, a_fresh, s_last, validateVars, parseVars, fetchVars>>

\* the tool read_resume(file_path), lines 131-150
ReadResume ==
    /\ agent.pc = "invoking"
    /\ agent.calls < MaxCalls
    /\ \E file_path \in ReadPaths :
         LET resume == read_latex_resume(disk, file_path)
         IN IF resume = None
            THEN /\ agent' = [agent EXCEPT !.calls = @ + 1]
                 /\ a_last' = [op |-> "read_resume", file_path |-> file_path,
                               result |-> "Error reading resume: No such file"]
                 /\ UNCHANGED a_fresh
            ELSE /\ agent' = [agent EXCEPT !.calls = @ + 1,
                                           !.resume_content = resume,
                                           !.resume_path = file_path]
                 /\ a_last' = [op |-> "read_resume", file_path |-> file_path,
                               result |-> "Resume loaded successfully!"]
                 /\ a_fresh' = FALSE
    /\ UNCHANGED <<disk, a_hist, storeVars, validateVars, parseVars, fetchVars>>

\* the tool get_full_resume_content(), lines 161-167
GetFullResumeContent ==
    /\ agent.pc = "invoking"
    /\ agent.calls < MaxCalls
    /\ IF agent.resume_content = None
       THEN /\ agent' = [agent EXCEPT !.calls = @ + 1]
            /\ a_last' = [op |-> "get_full_resume_content",
                          result |-> "Error: No resume has been loaded yet."]
            /\ UNCHANGED a_fresh
       ELSE /\ agent' = [agent EXCEPT !.calls = @ + 1,
                                      !.full_content_retrieved = TRUE]
            /\ a_last' = [op |-> "get_full_resume_content",
                          result |-> "Full resume content:\n\n"
                                       \o agent.resume_content.raw_content]
            /\ a_fresh' = TRUE
    /\ UNCHANGED <<disk, a_hist, storeVars, validateVars, parseVars, fetchVars>>

\* the tool save_modified_resume(new_content, output_path), lines 211-294
SaveModifiedResume ==
    /\ agent.pc = "invoking"
    /\ agent.calls < MaxCalls
    /\ \E args \in SaveArgs :
         LET new_content == args.new_content
             output_path == args.output_path
             saved == save_modified_resume(agent, disk, new_content, output_path)
             target == IF output_path = "" THEN agent.output_resume_path
                       ELSE output_path
         IN /\ disk' = saved.disk
            /\ a_last' = [op |-> "save_modified_resume",
                          new_content |-> new_content,
                          output_path |-> output_path,
                          result |-> saved.result]
            /\ a_hist' = IF CanWrite(disk, target)
                            /\ saved.disk[Resolve(target)] # disk[Resolve(target)]
                         THEN a_hist \cup {[path |-> Resolve(target),
                                            content |-> saved.disk[Resolve(target)]]}
                         ELSE a_hist
    /\ agent' = [agent EXCEPT !.calls = @ + 1]
    /\ UNCHANGED <<a_fresh, storeVars, validateVars, parseVars, fetchVars>>

\* the tool save_user_info(experiences, skills, note), lines 360-374
SaveUserInfo ==
    /\ agent.pc = "invoking"
    /\ agent.calls < MaxCalls
    /\ \E info \in UserInfos :
         IF agent.current_profile = None
         THEN /\ agent' = [agent EXCEPT !.calls = @ + 1]
              /\ a_last' = [op |-> "save_user_info", info |-> info,
                            result |-> "No user profile active."]
         ELSE /\ agent' = [agent EXCEPT
                             !.calls = @ + 1,
                             !.conversation_notes =
                                 @ \o NotesFrom(info.experiences, info.skills,
                                                info.note)]
              /\ a_last' = [op |-> "save_user_info", info |-> info,
                            result |-> "Information saved to your profile."]
    /\ UNCHANGED <<disk, a_hist, a_fresh, storeVars, validateVars, parseVars, fetchVars>>

\* run(), lines 580-620 without the merge of lines 609-613: the notes are
\* kept only when agent.invoke returns
InvokeEnds_notes_lost_on_error ==
    /\ agent.pc = "invoking"
    /\ \E raised \in BOOLEAN :
         /\ a_last' = [op |-> "invoke", result |-> [success |-> ~raised]]
         /\ IF /\ ~raised
               /\ agent.current_profile # None
               /\ Len(agent.conversation_notes) > 0
            THEN /\ files' = update_from_conversation(
                                files, agent.current_profile.user_id,
                                <<>>, <<>>, agent.conversation_notes, now + 1)
                 /\ now' = now + 1
            ELSE UNCHANGED <<files, now>>
    /\ agent' = [agent EXCEPT !.pc = "idle"]
    /\ UNCHANGED <<disk, a_hist, a_fresh, s_last, validateVars, parseVars, fetchVars>>

\* run(), lines 580-620: agent.invoke returns or raises; on both paths the
\* notes are merged into the stored profile
InvokeEnds ==
    /\ agent.pc = "invoking"
    /\ \E raised \in BOOLEAN :
         /\ a_last' = [op |-> "invoke", result |-> [success |-> ~raised]]
         /\ IF agent.current_profile # None /\ Len(agent.conversation_notes) > 0
            THEN /\ files' = update_from_conversation(
                                files, agent.current_profile.user_id,
                                <<>>, <<>>, agent.conversation_notes, now + 1)
                 /\ now' = now + 1
            ELSE UNCHANGED <<files, now>>
    /\ agent' = [agent EXCEPT !.pc = "idle"]
    /\ UNCHANGED <<disk, a_hist, a_fresh, s_last, validateVars, parseVars, fetchVars>>

\* a new session: ResumeAgent() is constructed again over the same files
NewSession ==
    /\ agent.pc = "idle"
    /\ agent.runs > 0
    /\ agent # [NewAgent EXCEPT !.runs = agent.runs]
    /\ agent' = [NewAgent EXCEPT !.runs = agent.runs]
    /\ a_last' = [op |-> "new_session"]
    /\ UNCHANGED <<disk, a_hist, a_fresh, storeVars, validateVars, parseVars, fetchVars>>

---------------------------------------------------------------------------
(* Python string helpers used by the job fetcher *)

UpperLetters == "ABCDEFGHIJKLMNOPQRSTUVWXYZ"
LowerLetters == "abcdefghijklmnopqrstuvwxyz"

UpperSet == {Char(UpperLetters, i) : i \in 1..Len(UpperLetters)}
LowerSet == {Char(LowerLetters, i) : i \in 1..Len(LowerLetters)}

IsUpper(c)  == c \in UpperSet
IsLetter(c) == c \in UpperSet \/ c \in LowerSet

\* str.lower() of one character
LowerChar(c) ==
    IF IsUpper(c) THEN Char(LowerLetters, Find(UpperLetters, c)) ELSE c

\* str.lower()
RECURSIVE Lower(_)
Lower(s) ==
    IF Len(s) = 0 THEN ""
    ELSE IF Len(s) = 1 THEN LowerChar(s)
    ELSE Lower(SubSeq(s, 1, Len(s) \div 2))
           \o Lower(SubSeq(s, (Len(s) \div 2) + 1, Len(s)))

\* the first position >= from at which s holds a character satisfying
\* ~IsSpace, or Len(s) + 1
RECURSIVE SkipSpace(_, _)
SkipSpace(s, from) ==
    IF from <= Len(s) /\ IsSpace(Char(s, from)) THEN SkipSpace(s, from + 1)
    ELSE from

---------------------------------------------------------------------------
(* The parsed page: what BeautifulSoup(html, 'html.parser') gives.
   A page is a sequence of elements in document order, each with its tag,
   the attributes the selectors read, and its text, and the sequence of its
   <script type="application/ld+json"> blocks. *)

El(tag, class, text) ==
    [tag |-> tag, class |-> class, id |-> "", automation |-> "", text |-> text]

\* JSON values
JStr(str)    == [t |-> "str", v |-> str]
JDict(dict)  == [t |-> "dict", v |-> dict]
JList(items) == [t |-> "list", v |-> items]
JMalformed   == [t |-> "malformed"]    \* text json.loads rejects
JNoString    == [t |-> "none"]         \* an empty script tag: script.string is None

\* dict.get(key, default)
Get(dict, key, default) == IF key \in DOMAIN dict THEN dict[key] ELSE default

IsJobPosting(data) ==
    /\ data.t = "dict"
    /\ "@type" \in DOMAIN data.v
    /\ data.v["@type"] = JStr("JobPosting")

\* lines 32-34: the first JobPosting item of a list, or None
RECURSIVE FirstJobPosting(_)
FirstJobPosting(items) ==
    IF Len(items) = 0 THEN None
    ELSE IF IsJobPosting(Head(items)) THEN Head(items).v
    ELSE FirstJobPosting(Tail(items))

\* _extract_json_ld: [raised |-> TRUE] for the TypeError json.loads(None)
\* raises (it is not among the exceptions line 35 catches), else
\* [raised |-> FALSE, data |-> the JobPosting dict or None]
RECURSIVE _extract_json_ld(_)
_extract_json_ld(scripts) ==
    IF Len(scripts) = 0 THEN [raised |-> FALSE, data |-> None]
    ELSE LET data == Head(scripts)
         IN IF data.t = "none" THEN [raised |-> TRUE]
            ELSE IF data.t = "malformed" THEN _extract_json_ld(Tail(scripts))
            ELSE IF IsJobPosting(data) THEN [raised |-> FALSE, data |-> data.v]
            ELSE IF data.t = "list" /\ FirstJobPosting(data.v) # None
            THEN [raised |-> FALSE, data |-> FirstJobPosting(data.v)]
            ELSE _extract_json_ld(Tail(scripts))

\* get_text() does not return the strings of these tags
ScriptTags == {"script", "style"}
\* line 162: the elements decompose() removes
NonContentTags == {"script", "style", "nav", "footer", "header", "aside"}

\* the elements left after lines 162-163
RECURSIVE Decompose(_)
Decompose(elems) ==
    IF Len(elems) = 0 THEN <<>>
    ELSE (IF Head(elems).tag \in NonContentTags THEN <<>> ELSE <<Head(elems)>>)
           \o Decompose(Tail(elems))

\* the stripped, non-empty strings get_text(strip=True) joins
RECURSIVE StrippedStrings(_)
StrippedStrings(elems) ==
    IF Len(elems) = 0 THEN <<>>
    ELSE (IF Head(elems).tag \in ScriptTags \/ Strip(Head(elems).text) = ""
          THEN <<>> ELSE <<Strip(Head(elems).text)>>)
           \o StrippedStrings(Tail(elems))

\* soup.get_text(separator=sep, strip=True)
get_text(elems, sep) == Join(StrippedStrings(elems), sep)

\* element.get_text(strip=True) of one element
ElementText(el) == Strip(el.text)

\* soup.select_one(selector): the first element in document order, or None
RECURSIVE SelectOne(_, _)
SelectOne(elems, selector) ==
    IF Len(elems) = 0 THEN None
    ELSE LET el == Head(elems)
             hit == CASE selector.by = "tag"        -> el.tag = selector.v
                      [] selector.by = "class"      -> Contains(el.class, selector.v)
                      [] selector.by = "id"         -> Contains(el.id, selector.v)
                      [] selector.by = "automation" ->
                             Contains(el.automation, selector.v)
         IN IF hit THEN el ELSE SelectOne(Tail(elems), selector)

\* lines 169-175
title_selectors ==
    <<[by |-> "tag", v |-> "h1"],
      [by |-> "class", v |-> "title"],
      [by |-> "class", v |-> "job-title"],
      [by |-> "automation", v |-> "jobTitle"],
      [by |-> "id", v |-> "title"]>>

\* lines 188-193
company_selectors ==
    <<[by |-> "class", v |-> "company"],
      [by |-> "class", v |-> "employer"],
      [by |-> "automation", v |-> "company"],
      [by |-> "class", v |-> "organization"]>>

\* the loops of lines 176-180 and 194-198: the text of the first selector
\* whose first match has text, or ""
RECURSIVE FirstSelected(_, _)
FirstSelected(elems, selectors) ==
    IF Len(selectors) = 0 THEN ""
    ELSE LET element == SelectOne(elems, Head(selectors))
         IN IF element # None /\ ElementText(element) # ""
            THEN ElementText(element)
            ELSE FirstSelected(elems, Tail(selectors))

---------------------------------------------------------------------------
(* src/tools/job_fetcher.py : fetch_job_description, lines 134-225 *)

JsTextThreshold == 1000      \* line 109

\* lines 110-112
JsPhrases ==
    {"please enable javascript", "javascript is required",
     "this site requires javascript"}

\* the heuristic of lines 109-112 with the phrases matched case-sensitively
NeedsJavascript_case_sensitive(text_check) ==
    \/ Len(text_check) < JsTextThreshold
    \/ \E phrase \in JsPhrases : Contains(text_check, phrase)

\* lines 109-112 on the text of the directly fetched page
NeedsJavascript(text_check) ==
    \/ Len(text_check) < JsTextThreshold
    \/ \E phrase \in JsPhrases : Contains(Lower(text_check), phrase)

\* the character class [a-zA-Z\s&] of the regex of line 213
InCompanyClass(c) == IsLetter(c) \/ IsSpace(c) \/ c = "&"

\* the last position of the maximal run of class characters starting at from
RECURSIVE RunEnd(_, _)
RunEnd(s, from) ==
    IF from <= Len(s) /\ InCompanyClass(Char(s, from)) THEN RunEnd(s, from + 1)
    ELSE from - 1

\* the length of the separator (?:at|@|-) matching at position i, or 0
SeparatorAt(s, i) ==
    IF i + 1 <= Len(s) /\ SubSeq(s, i, i + 1) = "at" THEN 2
    ELSE IF Char(s, i) \in {"@", "-"} THEN 1
    ELSE 0

\* the regex of line 213 tried at position i: its group 1 as [from, to], or
\* None.  After the separator and \s* comes [A-Z], then the greedy run
\* [a-zA-Z\s&]+, which must be followed by the end of the text or by "-".
CompanyMatchAt(s, i) ==
    LET n     == SeparatorAt(s, i)
        first == SkipSpace(s, i + n)
        last  == RunEnd(s, first + 1)
    IN IF /\ n > 0
          /\ first <= Len(s) /\ IsUpper(Char(s, first))
          /\ last >= first + 1
          /\ (last = Len(s) \/ Char(s, last + 1) = "-")
       THEN [from |-> first, to |-> last]
       ELSE None

\* lines 213-215: re.search finds the leftmost match; group(1).strip(), or ""
CompanyFromTitle(title_text) ==
    LET hits == {i \in 1..Len(title_text) : CompanyMatchAt(title_text, i) # None}
    IN IF hits = {} THEN ""
       ELSE LET i == CHOOSE i \in hits : \A j \in hits : i <= j
                m == CompanyMatchAt(title_text, i)
            IN Strip(SubSeq(title_text, m.from, m.to))

\* the last position of the whitespace run that starts at from
RECURSIVE SpaceRunEnd(_, _)
SpaceRunEnd(s, from) ==
    IF from <= Len(s) /\ IsSpace(Char(s, from)) THEN SpaceRunEnd(s, from + 1)
    ELSE from - 1

\* line 218: re.sub(r'\n\s*\n\s*\n+', '\n\n', text) from position from on.
\* A match starts at a newline whose whitespace run holds three newlines or
\* more and ends at the last newline of that run.
RECURSIVE CollapseFrom(_, _)
CollapseFrom(s, from) ==
    LET nls == {i \in from..Len(s) : Char(s, i) = "\n"}
    IN IF nls = {} THEN SubSeq(s, from, Len(s))
       ELSE LET i      == CHOOSE i \in nls : \A j \in nls : i <= j
                stop   == SpaceRunEnd(s, i)
                inrun  == {j \in nls : j <= stop}
                lastnl == CHOOSE j \in inrun : \A k \in inrun : k <= j
            IN IF Cardinality(inrun) >= 3
               THEN SubSeq(s, from, i - 1) \o "\n\n" \o CollapseFrom(s, lastnl + 1)
               ELSE SubSeq(s, from, i) \o CollapseFrom(s, i + 1)

CollapseBlankLines(text) == CollapseFrom(text, 1)

\* lines 203-206: the table of known domains
CompanyFromUrl(url) ==
    IF Contains(Lower(url), "apple.com") THEN "Apple"
    ELSE IF Contains(Lower(url), "linkedin.com") THEN "LinkedIn"
    ELSE ""

\* lines 167-184: the title when the metadata gave none
HeuristicTitle(elems, rendered_title) ==
    LET selected == FirstSelected(elems, title_selectors)
    IN IF selected = "" /\ rendered_title # "" THEN rendered_title ELSE selected

\* lines 186-215: the company when the metadata gave none
HeuristicCompany(elems, url, title, rendered_title) ==
    LET selected == FirstSelected(elems, company_selectors)
        byurl    == CompanyFromUrl(url)
    IN IF selected # "" THEN selected
       ELSE IF byurl # "" THEN byurl
       ELSE IF title # "" \/ rendered_title # ""
       THEN CompanyFromTitle(IF title # "" THEN title ELSE rendered_title)
       ELSE ""

\* lines 144-157: what the metadata block gives for title, company and
\* description ("" where it gives nothing)
FromJsonLd(json_ld) ==
    IF json_ld = None THEN [title |-> "", company |-> "", description |-> ""]
    ELSE LET hiring_org     == Get(json_ld, "hiringOrganization", JDict(<<>>))
             description    == Get(json_ld, "description", JStr("")).v
             qualifications == Get(json_ld, "qualifications", JStr("")).v
         IN [title   |-> Get(json_ld, "title", JStr("")).v,
             company |-> IF hiring_org.t = "dict"
                         THEN Get(hiring_org.v, "name", JStr("")).v
                         ELSE "",
             description |->
                 IF qualifications # ""
                 THEN description \o "\n\nQualifications:\n" \o qualifications
                 ELSE description]

\* lines 134-225 with the priorities reversed: the headings of the page are
\* tried first and the JobPosting block only fills what they leave empty
ParseJob_headings_first(url, page, rendered_title) ==
    LET extracted == _extract_json_ld(page.ld)
    IN IF extracted.raised THEN [kind |-> "raise", error |-> "TypeError"]
       ELSE
       LET meta  == FromJsonLd(extracted.data)
           elems == IF meta.description = "" THEN Decompose(page.elems)
                    ELSE page.elems
           description_text == IF meta.description = ""
                               THEN get_text(elems, "\n") ELSE meta.description
           found_title == HeuristicTitle(elems, rendered_title)
           title   == IF found_title = "" THEN meta.title ELSE found_title
           found_company == HeuristicCompany(elems, url, title, rendered_title)
           company == IF found_company = "" THEN meta.company ELSE found_company
       IN [kind |-> "return",
           job  |-> [url          |-> url,
                     raw_text     |-> CollapseBlankLines(description_text),
                     title        |-> title,
                     company      |-> company,
                     requirements |-> <<>>]]

\* lines 134-225: the JobDescription built from the selected HTML, or the
\* exception _extract_json_ld lets through
ParseJob(url, page, rendered_title) ==
    LET extracted == _extract_json_ld(page.ld)
    IN IF extracted.raised THEN [kind |-> "raise", error |-> "TypeError"]
       ELSE
       LET meta  == FromJsonLd(extracted.data)
           \* lines 160-165: the soup is stripped only on this path
           elems == IF meta.description = "" THEN Decompose(page.elems)
                    ELSE page.elems
           description_text == IF meta.description = ""
                               THEN get_text(elems, "\n") ELSE meta.description
           title   == IF meta.title = "" THEN HeuristicTitle(elems, rendered_title)
                      ELSE meta.title
           company == IF meta.company = ""
                      THEN HeuristicCompany(elems, url, title, rendered_title)
                      ELSE meta.company
       IN [kind |-> "return",
           job  |-> [url          |-> url,
                     raw_text     |-> CollapseBlankLines(description_text),
                     title        |-> title,
                     company      |-> company,
                     requirements |-> <<>>]]

---------------------------------------------------------------------------
(* One call of fetch_job_description(url, use_browser), step by step, with
   the network and the browser as the environment *)

\* the pages the network or the browser may deliver
ShortText == "Engineer wanted" \o Pad(35)                  \* 50 characters
LongText  == "We are hiring.\n\n\n\nYou will build things. " \o Pad(JsTextThreshold)
JsText    == "Please Enable JavaScript to view this page. " \o Pad(JsTextThreshold)

JobPostingFull ==
    JDict([x \in {"@type"} |-> JStr("JobPosting")] @@
          ("title" :> JStr("Data Analyst")) @@
          ("hiringOrganization" :> JDict("name" :> JStr("Acme"))) @@
          ("description" :> JStr("Analyze data.")) @@
          ("qualifications" :> JStr("SQL")))

\* a JobPosting block that names no title and no organization
JobPostingBare ==
    JDict(("@type" :> JStr("JobPosting")) @@
          ("description" :> JStr("Analyze data.")))

\* a JobPosting block with an empty description and a textual organization
JobPostingNoText ==
    JDict(("@type" :> JStr("JobPosting")) @@
          ("title" :> JStr("Data Analyst")) @@
          ("hiringOrganization" :> JStr("Acme")) @@
          ("description" :> JStr("")))

OtherSchema == JDict(("@type" :> JStr("Organization")) @@ ("name" :> JStr("Acme")))

Heading  == El("h1", "", " Staff Engineer at Initech - Remote ")
Employer == El("div", "company-name", "Globex")
NavBar   == El("nav", "site-title", "Careers " \o Pad(JsTextThreshold))

Page(elems, ld) == [elems |-> elems, ld |-> ld]

Pages ==
    {Page(<<>>, <<>>),
     Page(<<El("p", "", ShortText)>>, <<>>),
     Page(<<El("p", "", Pad(JsTextThreshold - 1))>>, <<>>),
     Page(<<El("p", "", Pad(JsTextThreshold))>>, <<>>),
     Page(<<El("p", "", JsText)>>, <<>>),
     Page(<<Heading, El("p", "", LongText)>>, <<>>),
     Page(<<NavBar, Heading, Employer, El("p", "", ShortText)>>, <<>>),
     Page(<<Heading, Employer, El("p", "", LongText)>>, <<JobPostingFull>>),
     Page(<<Heading, Employer, El("p", "", LongText)>>, <<JobPostingBare>>),
     Page(<<Heading, Employer, El("p", "", LongText)>>, <<JobPostingNoText>>),
     Page(<<El("p", "", LongText)>>,
          <<JMalformed, OtherSchema, JList(<<OtherSchema, JobPostingFull>>)>>),
     Page(<<El("p", "", LongText)>>, <<JNoString, JobPostingFull>>),
     Page(<<El("p", "", ShortText)>>, <<JNoString>>)}

Urls        == {"https://jobs.Apple.com/role/1", "https://example.org/job"}
Statuses    == {200, 300, 404, 503}
PageTitles  == {"", "Analyst at Hooli"}

PlaywrightMissingMsg ==
    "Playwright is not installed. For JavaScript-rendered pages, install with: "
      \o "uv pip install playwright && playwright install chromium"
InstallPlaywrightMsg(url) ==
    "Failed to fetch " \o url \o ". This page may require JavaScript. "
      \o "Install Playwright with: uv pip install playwright && playwright install chromium"
FetchFailedMsg(url, why) ==
    "Failed to fetch job description from " \o url \o ": " \o why

\* browser is "open" from p.chromium.launch() until browser.close() is called
PwIdle == [pc |-> "idle", browser |-> "none", context |-> "none"]

FetchInit ==
    /\ f_pc = "start"
    /\ f_url \in Urls
    /\ f_use_browser \in BOOLEAN
    /\ html_content = None
    /\ page_title = ""
    /\ needs_javascript = FALSE
    /\ f_result = None
    /\ pw = PwIdle
    /\ f_log = <<>>

fetchFrame == <<validateVars, parseVars, storeVars, agentVars>>

\* line 101: response.raise_for_status() raises HTTPError for these, and for
\* no other status; a 3xx answer that is not a redirect requests follows
\* (300, 304) is returned to line 102 like a 2xx one
IsErrorStatus(status) == 400 <= status /\ status < 600

\* line 98 without the test of use_browser: the direct fetch is made (and
\* its result dropped) although the caller asked for the browser
SkipDirect_fetches_anyway ==
    /\ f_pc = "start"
    /\ f_use_browser
    /\ f_pc' = "escalate"
    /\ f_log' = Append(f_log, [strategy |-> "direct", status |-> 0,
                               page |-> None])
    /\ UNCHANGED <<f_url, f_use_browser, html_content, page_title,
                   needs_javascript, f_result, pw, fetchFrame>>

\* lines 98-117: use_browser skips the direct fetch
SkipDirect ==
    /\ f_pc = "start"
    /\ f_use_browser
    /\ f_pc' = "escalate"
    /\ UNCHANGED <<f_url, f_use_browser, html_content, page_title,
                   needs_javascript, f_result, pw, f_log, fetchFrame>>

\* lines 99-117: requests.get raises a RequestException, or answers.  The
\* log keeps what the network did (status 0: no response at all).
DirectFetch ==
    /\ f_pc = "start"
    /\ ~f_use_browser
    /\ \/ \* the network fails: the except of line 115
          /\ f_log' = Append(f_log, [strategy |-> "direct", status |-> 0,
                                     page |-> None])
          /\ UNCHANGED <<html_content, needs_javascript>>
       \/ \E status \in Statuses, page \in Pages :
            /\ f_log' = Append(f_log, [strategy |-> "direct", status |-> status,
                                       page |-> page])
            /\ IF IsErrorStatus(status)
               THEN UNCHANGED <<html_content, needs_javascript>>
               ELSE /\ html_content' = page
                    /\ needs_javascript' =
                           NeedsJavascript(get_text(page.elems, " "))
    /\ f_pc' = "escalate"
    /\ UNCHANGED <<f_url, f_use_browser, page_title, f_result, pw, fetchFrame>>

\* line 120: whether _fetch_with_playwright is called
Escalate ==
    /\ f_pc = "escalate"
    /\ IF html_content = None \/ needs_javascript \/ f_use_browser
       THEN /\ f_pc' = "rendering"
            /\ pw' = [PwIdle EXCEPT !.pc = "import"]
            /\ f_log' = Append(f_log, [strategy |-> "render"])
       ELSE /\ f_pc' = "parse"
            /\ UNCHANGED <<pw, f_log>>
    /\ UNCHANGED <<f_url, f_use_browser, html_content, page_title,
                   needs_javascript, f_result, fetchFrame>>

pwFrame == <<f_pc, f_url, f_use_browser, html_content, page_title,
             needs_javascript, f_result, f_log, fetchFrame>>

\* _fetch_with_playwright leaves the with block by an exception: the context
\* manager of line 56 stops Playwright
PwRaise(state, error) ==
    [state EXCEPT !.pc = "raised", !.context = "stopped"] @@ [error |-> error]

\* lines 48-54: the import
PwImport ==
    /\ f_pc = "rendering" /\ pw.pc = "import"
    /\ \/ pw' = [pw EXCEPT !.pc = "raised"] @@ [error |-> "ImportError"]
       \/ pw' = [pw EXCEPT !.pc = "launch"]
    /\ UNCHANGED pwFrame

\* lines 56-57: sync_playwright() is entered and the browser launched
PwLaunch ==
    /\ f_pc = "rendering" /\ pw.pc = "launch"
    /\ \/ pw' = PwRaise([pw EXCEPT !.context = "started"], "launch failed")
       \/ pw' = [pw EXCEPT !.pc = "new_page", !.context = "started",
                           !.browser = "open"]
    /\ UNCHANGED pwFrame

\* line 58: browser.new_page(), outside the try of line 60
PwNewPage ==
    /\ f_pc = "rendering" /\ pw.pc = "new_page"
    /\ \/ pw' = PwRaise(pw, "new_page failed")
       \/ pw' = [pw EXCEPT !.pc = "goto"]
    /\ UNCHANGED pwFrame

\* lines 61-63 inside try/finally: navigation and the settle wait
PwNavigate ==
    /\ f_pc = "rendering" /\ pw.pc = "goto"
    /\ \/ \E error \in {"Timeout 30000ms exceeded", "wait failed"} :
            pw' = PwRaise([pw EXCEPT !.browser = "closed"], error)
       \/ pw' = [pw EXCEPT !.pc = "capture"]
    /\ UNCHANGED pwFrame

\* lines 65-70: content and title are captured and returned; finally closes
PwCapture ==
    /\ f_pc = "rendering" /\ pw.pc = "capture"
    /\ \/ pw' = PwRaise([pw EXCEPT !.browser = "closed"], "capture failed")
       \/ \E page \in Pages, title \in PageTitles :
            pw' = [pw EXCEPT !.pc = "returned", !.browser = "closed",
                             !.context = "stopped"]
                    @@ [content |-> page, title |-> title]
    /\ UNCHANGED pwFrame

\* lines 121-132 with a single handler: the ImportError is caught by the
\* generic except and reported like any other rendering failure
RenderDone_single_handler ==
    /\ f_pc = "rendering" /\ pw.pc \in {"returned", "raised"}
    /\ IF pw.pc = "returned"
       THEN /\ html_content' = pw.content
            /\ page_title' = pw.title
            /\ f_pc' = "parse"
            /\ UNCHANGED f_result
       ELSE IF html_content = None
            THEN /\ f_result' = [kind |-> "raise",
                                 error |-> FetchFailedMsg(f_url, pw.error)]
                 /\ f_pc' = "done"
                 /\ UNCHANGED <<html_content, page_title>>
            ELSE /\ f_pc' = "parse"
                 /\ UNCHANGED <<html_content, page_title, f_result>>
    /\ UNCHANGED <<f_url, f_use_browser, needs_javascript, pw, f_log, fetchFrame>>

\* lines 121-132: the outcome of the rendering inside fetch_job_description
RenderDone ==
    /\ f_pc = "rendering" /\ pw.pc \in {"returned", "raised"}
    /\ IF pw.pc = "returned"
       THEN /\ html_content' = pw.content
            /\ page_title' = pw.title
            /\ f_pc' = "parse"
            /\ UNCHANGED f_result
       ELSE IF pw.error = "ImportError"
       THEN IF html_content = None \/ needs_javascript
            THEN /\ f_result' = [kind |-> "raise",
                                 error |-> InstallPlaywrightMsg(f_url)]
                 /\ f_pc' = "done"
                 /\ UNCHANGED <<html_content, page_title>>
            ELSE /\ f_pc' = "parse"
                 /\ UNCHANGED <<html_content, page_title, f_result>>
       ELSE IF html_content = None
            THEN /\ f_result' = [kind |-> "raise",
                                 error |-> FetchFailedMsg(f_url, pw.error)]
                 /\ f_pc' = "done"
                 /\ UNCHANGED <<html_content, page_title>>
            ELSE /\ f_pc' = "parse"
                 /\ UNCHANGED <<html_content, page_title, f_result>>
    /\ UNCHANGED <<f_url, f_use_browser, needs_javascript, pw, f_log, fetchFrame>>

\* lines 134-225
Parse ==
    /\ f_pc = "parse"
    /\ f_result' = ParseJob(f_url, html_content, page_title)
    /\ f_pc' = "done"
    /\ UNCHANGED <<f_url, f_use_browser, html_content, page_title,
                   needs_javascript, pw, f_log, fetchFrame>>

---------------------------------------------------------------------------
(* Specifications *)

FetchIdle ==
    /\ f_pc = "idle"
    /\ f_url = ""
    /\ f_use_browser = FALSE
    /\ html_content = None
    /\ page_title = ""
    /\ needs_javascript = FALSE
    /\ f_result = None
    /\ pw = [pc |-> "idle", browser |-> "none", context |-> "none"]
    /\ f_log = <<>>

AgentIdle == AgentInit

InitValidate == ValidateIdle /\ ParseIdle /\ FetchIdle /\ StoreInit /\ AgentIdle
NextValidate == ValidateCall
SpecValidate == InitValidate /\ [][NextValidate]_vars

InitStore == ValidateIdle /\ ParseIdle /\ FetchIdle /\ StoreInit /\ AgentIdle
NextStore ==
    \/ CreateProfile
    \/ SaveProfile
    \/ LoadProfile
    \/ UpdateFromConversation
    \/ FindProfileByResume
    \/ ListProfiles
    \/ DamageFile
SpecStore == InitStore /\ [][NextStore]_vars

InitParse == ValidateIdle /\ ParseInit /\ FetchIdle /\ StoreInit /\ AgentIdle
NextParse == ReadCall
SpecParse == InitParse /\ [][NextParse]_vars

InitAgent == ValidateIdle /\ ParseIdle /\ FetchIdle /\ StoreInit /\ AgentInit
NextAgent ==
    \/ RunStart
    \/ ReadResume
    \/ GetFullResumeContent
    \/ SaveModifiedResume
    \/ SaveUserInfo
    \/ InvokeEnds
    \/ NewSession
SpecAgent == InitAgent /\ [][NextAgent]_vars

InitFetch == ValidateIdle /\ ParseIdle /\ FetchInit /\ StoreInit /\ AgentIdle
NextFetch ==
    \/ SkipDirect
    \/ DirectFetch
    \/ Escalate
    \/ PwImport
    \/ PwLaunch
    \/ PwNewPage
    \/ PwNavigate
    \/ PwCapture
    \/ RenderDone
    \/ Parse
SpecFetch == InitFetch /\ [][NextFetch]_vars

---------------------------------------------------------------------------
(* Claims *)

\* the direct fetch of this call, as the log keeps it
DirectAttempted == Len(f_log) > 0 /\ f_log[1].strategy = "direct"
DirectFailed ==
    DirectAttempted /\ (f_log[1].status = 0 \/ IsErrorStatus(f_log[1].status))
DirectContent == DirectAttempted /\ ~DirectFailed
\* the direct fetch answered with a 2xx status
Direct2xx ==
    DirectAttempted /\ 200 <= f_log[1].status /\ f_log[1].status < 300
RenderAttempted == \E i \in 1..Len(f_log) : f_log[i].strategy = "render"
Returned == f_pc = "done" /\ f_result.kind = "return"
Raised   == f_pc = "done" /\ f_result.kind = "raise"
PlaywrightMissing == pw.pc = "raised" /\ pw.error = "ImportError"

\* C1: when the direct fetch produced content and the only problem is that
\* Playwright cannot be imported, fetch_job_description does not fail: it
\* returns the JobRecord built from the direct-fetch content.
C1_FallsBackToDirectContent ==
    (f_pc = "done" /\ DirectContent /\ PlaywrightMissing)
        => /\ f_result.kind = "return"
           /\ f_result = ParseJob(f_url, f_log[1].page, "")

\* C2: validate_latex_syntax returns is_valid = true if and only if no hard
\* issue was recorded; the missing \documentclass issue is advisory and does
\* not by itself make is_valid false.
C2_ValidIffNoHardIssue ==
    v_call # None
        => (v_call.result.is_valid
              <=> \A i \in 1..Len(v_call.result.issues) :
                      v_call.result.issues[i] = MissingClassMsg)

\* C3: create_profile fails and leaves the stored record unchanged whenever a
\* profile already exists for the user_id.
C3_CreateFailsWhenProfileExists ==
    [][(/\ now' # now
        /\ s_last'.op = "create_profile"
        /\ profile_exists(files, s_last'.user_id))
          => files' = files]_vars

\* a step of the tool save_modified_resume
IsSaveStep ==
    /\ agent'.calls # agent.calls
    /\ a_last'.op = "save_modified_resume"

\* the call got as far as the validation of line 266
ReachedValidation(a, new_content) ==
    a.full_content_retrieved /\ Len(new_content) >= 500

\* C4: save_modified_resume writes only content that validate_latex_syntax
\* finds valid; when the validation reports issues nothing on the disk
\* changes and the returned message contains every issue string.
C4_SaveOnlyValidated ==
    [][IsSaveStep =>
         LET checked == validate_latex_syntax(a_last'.new_content)
             issues  == {checked.issues[i] : i \in 1..Len(checked.issues)}
         IN /\ disk' # disk => checked.is_valid
            /\ (ReachedValidation(agent, a_last'.new_content) /\ issues # {})
                 => /\ disk' = disk
                    /\ \A issue \in issues :
                           Contains(a_last'.result, issue)]_vars

\* C4 witness: a save was refused by the validation after an earlier save
\* had written a file
C4_Witness ==
    /\ a_last.op = "save_modified_resume"
    /\ StartsWith(a_last.result, "LaTeX validation failed. Issues: Unmatched")
    /\ a_hist # {}

\* C5: every JobRecord a successful fetch_job_description returns has a
\* non-empty raw_text.
C5_RawTextNeverEmpty == Returned => f_result.job.raw_text # ""

\* the JobPosting block of the selected HTML, or None
SelectedJobPosting ==
    IF html_content = None \/ _extract_json_ld(html_content.ld).raised THEN None
    ELSE _extract_json_ld(html_content.ld).data

C7_BrowserClosedOnExit ==
    pw.pc \in {"returned", "raised"} => pw.browser # "open"

\* C8: load_profile(u) never returns a profile whose user_id differs from u
\* (distinct user_ids own distinct files).
C8_LoadReturnsOwnProfile ==
    \A u \in UserIds :
        load_profile(files, u) # None => load_profile(files, u).user_id = u

IsProfile(stored) == stored # Absent /\ stored # Corrupt

\* every element of the list old occurs in the list new
Keeps(old, new) ==
    \A i \in 1..Len(old) : \E j \in 1..Len(new) : new[j] = old[i]

\* C9: across runs a stored profile only grows: no element of its
\* experiences, skills, notes or resume_files is ever lost.
C9_StoredProfilesOnlyGrow ==
    [][\A fname \in DOMAIN files :
          IsProfile(files[fname])
            => /\ IsProfile(files'[fname])
               /\ Keeps(files[fname].experiences, files'[fname].experiences)
               /\ Keeps(files[fname].skills, files'[fname].skills)
               /\ Keeps(files[fname].notes, files'[fname].notes)
               /\ Keeps(files[fname].resume_files, files'[fname].resume_files)]_vars

\* text holds phrase when case is ignored
ContainsIgnoringCase(text, phrase) ==
    \E i \in 1..(Len(text) - Len(phrase) + 1) :
        /\ LowerChar(Char(text, i)) = Char(phrase, 1)
        /\ Lower(SubSeq(text, i, i + Len(phrase) - 1)) = phrase

\* the escalation heuristic as the claim words it, on the text of the page
\* the direct fetch delivered
EscalationText ==
    LET text == get_text(f_log[1].page.elems, " ")
    IN \/ Len(text) < 1000
       \/ ContainsIgnoringCase(text, "please enable javascript")
       \/ ContainsIgnoringCase(text, "javascript is required")
       \/ ContainsIgnoringCase(text, "this site requires javascript")

\* C10: the rendering is invoked if and only if use_browser is true, or the
\* direct fetch failed (non-2xx status or network error), or it succeeded
\* with a text shorter than 1000 characters or holding one of the three
\* JavaScript phrases in any case; and a failed direct fetch never raises
\* before the rendering was tried.
C10_RenderingIffEscalation ==
    /\ f_pc \in {"rendering", "parse", "done"}
         => (RenderAttempted
               <=> \/ f_use_browser
                   \/ DirectAttempted /\ ~Direct2xx
                   \/ Direct2xx /\ EscalationText)
    /\ (Raised /\ DirectAttempted /\ ~Direct2xx) => RenderAttempted

\* C10 as amended: the same with a failed direct fetch being a network error
\* or a 4xx or 5xx status; any other status delivers content to which the
\* heuristic is applied.
C10_RenderingIffRejected ==
    /\ f_pc \in {"rendering", "parse", "done"}
         => (RenderAttempted
               <=> \/ f_use_browser
                   \/ DirectFailed
                   \/ DirectContent /\ EscalationText)
    /\ (Raised /\ DirectFailed) => RenderAttempted

\* C10 witness: a long page that asks for JavaScript in mixed case was
\* fetched directly and the rendering was invoked for it
C10_Witness ==
    /\ DirectContent
    /\ Len(get_text(f_log[1].page.elems, " ")) >= 1000
    /\ RenderAttempted

\* no strategy of this call produced content: the direct fetch failed or was
\* skipped, and _fetch_with_playwright raised
NoContentObtained == ~DirectContent /\ pw.pc = "raised"

\* C11: when no strategy produced content (the direct fetch failed or was
\* skipped, and the rendering is unavailable or fails) the call ends with an
\* error and no JobRecord; when Playwright is missing the error is the
\* install-Playwright guidance and not the generic fetch failure.
C11_FailsWithoutContent ==
    (f_pc = "done" /\ NoContentObtained)
        => /\ f_result.kind = "raise"
           /\ PlaywrightMissing
                => /\ Contains(f_result.error, "Install Playwright")
                   /\ ~StartsWith(f_result.error,
                                  "Failed to fetch job description from")
           /\ ~PlaywrightMissing
                => f_result.error = FetchFailedMsg(f_url, pw.error)

\* C11 witness: use_browser skipped the direct fetch, Playwright is missing
\* and the call has ended with the guidance
C11_Witness ==
    /\ Raised
    /\ f_use_browser
    /\ PlaywrightMissing
    /\ f_result.error = InstallPlaywrightMsg(f_url)

\* the positions of the log at which a strategy was attempted
Attempts(strategy) == {i \in 1..Len(f_log) : f_log[i].strategy = strategy}

\* C12: within one call the direct fetch is attempted at most once and only
\* before any rendering, the rendering at most once, and with use_browser
\* the direct fetch is never attempted; no strategy is attempted again.
C12_EachStrategyOnce ==
    /\ Cardinality(Attempts("direct")) <= 1
    /\ Cardinality(Attempts("render")) <= 1
    /\ \A i \in Attempts("direct"), j \in Attempts("render") : i < j
    /\ f_use_browser => Attempts("direct") = {}
    /\ Len(f_log) <= 2

\* C12 witness: the direct fetch failed, the rendering was tried after it
\* and failed too, and the call has ended
C12_Witness ==
    /\ f_pc = "done"
    /\ DirectFailed
    /\ Attempts("render") = {2}
    /\ pw.pc = "raised"

\* how often the element e occurs in the list
Occurrences(list, e) == Cardinality({i \in 1..Len(list) : list[i] = e})

NoDuplicates(list) == \A i \in 1..Len(list) : Occurrences(list, list[i]) = 1

\* a step of update_from_conversation
IsUpdateStep == now' # now /\ s_last'.op = "update_from_conversation"

\* C13: update_from_conversation is idempotent on the lists it merges: a
\* second call with the same arguments leaves experiences, skills and notes
\* as the first call left them, and an element repeated inside one argument
\* list is stored once.
C13_MergeIdempotent ==
    [][IsUpdateStep =>
         LET u     == s_last'.user_id
             m     == s_last'.merge
             once  == load_profile(files', u)
             twice == load_profile(
                          update_from_conversation(files', u, m.experiences,
                                                   m.skills, m.notes, now' + 1),
                          u)
         IN /\ once # None /\ twice # None
            /\ twice.experiences = once.experiences
            /\ twice.skills = once.skills
            /\ twice.notes = once.notes
            /\ \A i \in 1..Len(m.experiences) :
                   Occurrences(once.experiences, m.experiences[i]) = 1
            /\ \A i \in 1..Len(m.skills) :
                   Occurrences(once.skills, m.skills[i]) = 1
            /\ \A i \in 1..Len(m.notes) :
                   Occurrences(once.notes, m.notes[i]) = 1]_vars

\* C13 witness: a merge that named the skill "Python" twice was applied to a
\* profile stored earlier, and the profile holds the skill once
C13_Witness ==
    /\ s_last.op = "update_from_conversation"
    /\ s_last.merge.skills = <<"Python", "Python">>
    /\ load_profile(files, s_last.user_id) # None
    /\ load_profile(files, s_last.user_id).created_at
          < load_profile(files, s_last.user_id).updated_at
    /\ Occurrences(load_profile(files, s_last.user_id).skills, "Python") = 1

\* the list old is a prefix of the list new
IsPrefix(old, new) ==
    Len(old) <= Len(new) /\ \A i \in 1..Len(old) : new[i] = old[i]

\* C14: update_from_conversation on an existing, loadable profile only
\* appends: experiences, skills and notes before the call are prefixes of
\* the lists after it, user_id, name, created_at, projects, education,
\* preferences and resume_files are unchanged, and updated_at is refreshed.
C14_UpdateIsAdditive ==
    [][IsUpdateStep =>
         LET u    == s_last'.user_id
             pre  == load_profile(files, u)
             post == load_profile(files', u)
         IN pre # None
              => /\ post # None
                 /\ IsPrefix(pre.experiences, post.experiences)
                 /\ IsPrefix(pre.skills, post.skills)
                 /\ IsPrefix(pre.notes, post.notes)
                 /\ post.user_id = pre.user_id
                 /\ post.name = pre.name
                 /\ post.created_at = pre.created_at
                 /\ post.projects = pre.projects
                 /\ post.education = pre.education
                 /\ post.preferences = pre.preferences
                 /\ post.resume_files = pre.resume_files
                 /\ post.updated_at = now'
                 /\ \A fname \in DOMAIN files :
                        fname # _get_profile_path(u) => files'[fname] = files[fname]]_vars

\* C14 witness: the skills "SQL", "Python" were merged into a stored profile
\* that held "Python": "SQL" was appended after it
C14_Witness ==
    /\ s_last.op = "update_from_conversation"
    /\ s_last.merge.skills = <<"SQL", "Python">>
    /\ load_profile(files, s_last.user_id) # None
    /\ load_profile(files, s_last.user_id).skills = <<"Python", "SQL">>

\* the stored, loadable profiles with a resume_files entry that resolves to
\* the same absolute path as resume_path
MatchingProfiles(resume_path) ==
    {files[fname] : fname \in
        {f \in DOMAIN files :
            /\ IsProfile(files[f])
            /\ \E i \in 1..Len(files[f].resume_files) :
                   Resolve(files[f].resume_files[i]) = Resolve(resume_path)}}

\* C15: find_profile_by_resume returns a profile if and only if some stored,
\* loadable profile has a resume_files entry resolving to the argument's
\* absolute path; the profile returned is one of those, so it is the
\* matching profile when exactly one matches, and None when none does.
C15_FindReturnsMatch ==
    s_last.op = "find_profile_by_resume"
        => LET matching == MatchingProfiles(s_last.resume_path)
           IN /\ s_last.result # None <=> matching # {}
              /\ s_last.result # None => s_last.result \in matching
              /\ Cardinality(matching) = 1 => matching = {s_last.result}

\* C15 witness: of two stored profiles exactly one matches, through a
\* relative resume_files entry, and it is the one returned
C15_Witness ==
    /\ s_last.op = "find_profile_by_resume"
    /\ s_last.resume_path = "/home/u/cv.tex"
    /\ s_last.result # None
    /\ s_last.result.resume_files = <<"cv.tex">>
    /\ Cardinality(MatchingProfiles(s_last.resume_path)) = 1
    /\ Cardinality({f \in DOMAIN files : IsProfile(files[f])}) >= 2

\* the profile files that do not deserialize, and the profiles that load
CorruptFiles == {fname \in DOMAIN files : files[fname] = Corrupt}
LoadableProfiles == {files[fname] : fname \in {f \in DOMAIN files : IsProfile(files[f])}}

\* C16: a stored profile that fails to deserialize counts as absent and
\* nothing is raised: load_profile returns None for it, find_profile_by_resume
\* still returns a loadable profile that matches, and list_profiles returns
\* exactly the loadable profiles, wherever the corrupt file comes in the scan.
C16_CorruptIsSkipped ==
    /\ s_last.op = "load_profile"
          => (_get_profile_path(s_last.user_id) \in CorruptFiles
                => s_last.result = None)
    /\ s_last.op = "find_profile_by_resume"
          => (MatchingProfiles(s_last.resume_path) # {}
                => s_last.result \in MatchingProfiles(s_last.resume_path))
    /\ s_last.op = "list_profiles"
          => /\ {s_last.result[i] : i \in 1..Len(s_last.result)} = LoadableProfiles
             /\ Len(s_last.result)
                  = Cardinality({f \in DOMAIN files : IsProfile(files[f])})

\* C16 witness: with one corrupt file in the store, the profile kept in
\* another file is found
C16_Witness ==
    /\ s_last.op = "find_profile_by_resume"
    /\ CorruptFiles # {}
    /\ s_last.result # None
    /\ s_last.result \in LoadableProfiles

\* the number of characters ch among the first k characters of content
CountUpTo(content, ch, k) ==
    Cardinality({i \in 1..k : Char(content, i) = ch})

\* the 0-based indexes at which more '}' than '{' have been seen
ClosesExceedOpens(content) ==
    {k - 1 : k \in {j \in 1..Len(content) :
                       CountUpTo(content, "}", j) > CountUpTo(content, "{", j)}}

\* C17: brace imbalance is reported by a left-to-right depth count.  When the
\* depth becomes negative, issues holds "Unmatched closing brace at position
\* N" for the smallest index N at which the '}' seen exceed the '{' seen, and
\* is_valid is false; when it never does and ends at D > 0, issues holds
\* "Unmatched opening braces (depth: D)" and is_valid is false.
C17_BraceImbalanceReported ==
    v_call # None
        => LET content == v_call.content
               result  == v_call.result
               issues  == {result.issues[i] : i \in 1..Len(result.issues)}
               exceed  == ClosesExceedOpens(content)
               D       == CountUpTo(content, "{", Len(content))
                            - CountUpTo(content, "}", Len(content))
           IN /\ exceed # {}
                    => /\ \E N \in exceed :
                             /\ \A M \in exceed : N <= M
                             /\ ("Unmatched closing brace at position "
                                    \o ToString(N)) \in issues
                       /\ ~result.is_valid
              /\ (exceed = {} /\ D > 0)
                    => /\ ("Unmatched opening braces (depth: "
                              \o ToString(D) \o ")") \in issues
                       /\ ~result.is_valid
              /\ content = "{}}"
                    => "Unmatched closing brace at position 2" \in issues
              /\ content = "{{}"
                    => "Unmatched opening braces (depth: 1)" \in issues

\* C17 witness: "{}}" has been validated and the closing brace at index 2 is
\* reported
C17_Witness ==
    /\ v_call # None
    /\ v_call.content = "{}}"
    /\ ~v_call.result.is_valid
    /\ v_call.result.issues[1] = "Unmatched closing brace at position 2"

\* the harness has read the resume file
ParsedText == r_call # None /\ r_call.result # None

\* the 0-based indexes at which \begin{document} occurs in text
MarkerIndexes(text) ==
    {i - 1 : i \in {j \in 1..(Len(text) - Len(BeginDoc) + 1) :
                       SubSeq(text, j, j + Len(BeginDoc) - 1) = BeginDoc}}

\* text[P:] for a 0-based index P
From(text, P) == SubSeq(text, P + 1, Len(text))

\* a heading \section{name} or \section*{name} stands in text
HeadingIn(text, name) ==
    \/ Contains(text, SectionCmd \o "{" \o name \o "}")
    \/ Contains(text, SectionCmd \o "*{" \o name \o "}")

\* C18: when the text's first \begin{document} is at position P, preamble is
\* text[0:P] and sections is built from text[P:] alone, so every key is a
\* heading of text[P:]; without the marker, preamble is the empty string and
\* sections is built from the whole text.
C18_PreambleSplitsAtMarker ==
    ParsedText
        => LET text   == r_call.content
               result == r_call.result
               marks  == MarkerIndexes(text)
           IN IF marks # {}
              THEN \E P \in marks :
                      /\ \A Q \in marks : P <= Q
                      /\ result.preamble = SubSeq(text, 1, P)
                      /\ result.sections = ExtractSections(From(text, P))
                      /\ \A key \in DOMAIN result.sections :
                             HeadingIn(From(text, P), key)
              ELSE /\ result.preamble = ""
                   /\ result.sections = ExtractSections(text)

\* C18 witness: a heading A before the marker and a heading B after it; only
\* B is a key of sections
C18_Witness ==
    /\ ParsedText
    /\ r_call.content = "\\section{A}" \o BeginDoc \o "\\section*{B}" \o " x "
    /\ r_call.result.preamble = "\\section{A}"
    /\ DOMAIN r_call.result.sections = {"B"}
    /\ r_call.result.sections["B"] = "x"

\* malformed text: no document-start marker and no section-heading command
Malformed(text) == ~Contains(text, BeginDoc) /\ ~Contains(text, SectionCmd)

\* C19, as stated: for malformed text, parsing does not fail and yields an
\* empty sections mapping and a preamble equal to the whole text.
C19_MalformedKeepsTextAsPreamble ==
    (r_call # None /\ Malformed(r_call.content) /\ r_call.result # None)
        => /\ DOMAIN r_call.result.sections = {}
           /\ r_call.result.preamble = r_call.content

\* C19, amended: for malformed text, parsing does not fail and yields an
\* empty sections mapping and an empty preamble.
C19_MalformedYieldsEmpty ==
    (r_call # None /\ Malformed(r_call.content) /\ r_call.result # None)
        => /\ DOMAIN r_call.result.sections = {}
           /\ r_call.result.preamble = ""

\* C19 witness: a text of an unbalanced brace and plain words has been parsed
C19_Witness ==
    /\ ParsedText
    /\ r_call.content = "{" \o " x " \o "y"
    /\ r_call.result.raw_content = r_call.content
    /\ r_call.result.preamble = ""
    /\ r_call.result.sections = <<>>

\* the body read_latex_resume searches, and the matches found in it
BodyOf(text) ==
    IF MarkerIndexes(text) = {} THEN text
    ELSE From(text, CHOOSE P \in MarkerIndexes(text) :
                        \A Q \in MarkerIndexes(text) : P <= Q)

\* the text that follows the heading of the i-th match, up to but not
\* including the next heading matched, or up to the end of the text
BodyUpToNextHeading(body, matches, i) ==
    SubSeq(body, HeadingAt(body, matches[i].start).close + 1,
           IF i < Len(matches) THEN matches[i + 1].start - 1 ELSE Len(body))

\* C20: the keys of sections are the distinct headings matched in the body,
\* as many keys as distinct headings, and the value of a heading is the
\* trimmed text between the LAST match carrying it and the next heading (or
\* the end of the text); earlier matches of a repeated heading leave nothing.
C20_LastMatchWins ==
    ParsedText
        => LET body     == BodyOf(r_call.content)
               matches  == finditer(body, 1)
               sections == r_call.result.sections
               headings == {matches[i].group1 : i \in 1..Len(matches)}
           IN /\ DOMAIN sections = headings
              /\ Cardinality(DOMAIN sections) = Cardinality(headings)
              /\ \A key \in headings :
                    \E last \in 1..Len(matches) :
                       /\ matches[last].group1 = key
                       /\ \A i \in 1..Len(matches) :
                              matches[i].group1 = key => i <= last
                       /\ sections[key]
                            = Strip(BodyUpToNextHeading(body, matches, last))

\* the last tool call was save_modified_resume and reported success
SaveSucceeded ==
    /\ a_last.op = "save_modified_resume"
    /\ StartsWith(a_last.result, "Resume saved successfully to ")

\* the path the last save_modified_resume call wrote to
SaveTarget ==
    IF a_last.output_path = "" THEN agent.output_resume_path
    ELSE a_last.output_path

\* C21: when save_modified_resume has written the resume and reports
\* success, a source resume path is known and every .cls file of the
\* directory of the loaded resume stands, with the same content, in the
\* directory of the output path.
C21_ClsCopiedOnSave ==
    SaveSucceeded
        => /\ agent.resume_path # ""
           /\ disk[Resolve(SaveTarget)] = a_last.new_content
           /\ \A cls \in ClsFiles(disk, Parent(agent.resume_path)) :
                  LET dest == PathJoin(AbsDir(Parent(SaveTarget)), BaseName(cls))
                  IN dest \in DOMAIN disk /\ disk[dest] = disk[cls]

\* C21 witness: the resume was written to /out and style.cls was copied there
C21_Witness ==
    /\ SaveSucceeded
    /\ agent.resume_path = "/home/u/cv.tex"
    /\ Resolve(SaveTarget) = "/out/resume_modified.tex"
    /\ disk["/out/resume_modified.tex"] = ValidDoc
    /\ disk["/out/style.cls"] = disk["/home/u/style.cls"]
    /\ disk["/out/style.cls"] # NoFile

\* a step of run() up to the agent invocation
IsRunStep == agent'.runs # agent.runs /\ a_last'.op = "run"

\* s begins with http:// or https://
IsHttpUrl(s) == StartsWith(s, "http://") \/ StartsWith(s, "https://")

\* C22: read_job_url_from_file returns the trimmed content of the file when
\* that begins with http:// or https:// and fails with an invalid-URL error
\* for any other content; on the failure run() returns an error result at
\* once: no profile is created or changed and the agent is not invoked.
C22_InvalidUrlStopsRun ==
    [][(IsRunStep /\ FileExists(disk, a_last'.job_url_file)) =>
         LET content == disk[Resolve(a_last'.job_url_file)]
             read    == read_job_url_from_file(disk, a_last'.job_url_file)
         IN IF IsHttpUrl(Strip(content))
            THEN /\ read.ok /\ read.url = Strip(content)
                 /\ a_last'.result.job_url = Strip(content)
                 /\ agent'.pc = "invoking"
            ELSE /\ ~read.ok
                 /\ read.error = "Invalid URL in file: " \o Strip(content)
                 /\ a_last'.result
                      = [error |-> "Failed to read job URL: Invalid URL in file: "
                                     \o Strip(content)]
                 /\ files' = files
                 /\ agent'.pc = "idle"
                 /\ agent'.current_profile = agent.current_profile]_vars

\* C22 witness: a run on a job file without a scheme has returned the error
\* while the profile store is still empty
C22_Witness ==
    /\ a_last.op = "run"
    /\ a_last.job_url_file = "/home/u/bad.txt"
    /\ a_last.result
         = [error |-> "Failed to read job URL: Invalid URL in file: example.org/job"]
    /\ agent.pc = "idle"
    /\ ExistingFiles(files) = {}

\* C23: once fetch_job_description holds some HTML content, from the direct
\* fetch or from the rendering, it returns a JobRecord and does not raise,
\* whatever the page contains; title and company are strings, empty when the
\* page names none.
C23_ParseNeverRaises ==
    (f_pc = "done" /\ html_content # None)
        => /\ f_result.kind = "return"
           /\ f_result.job.url = f_url
           /\ Len(f_result.job.title) >= 0
           /\ Len(f_result.job.company) >= 0

\* the text of the directly fetched page without the content of script,
\* style, nav, footer, header and aside elements
VisibleText == get_text(Decompose(f_log[1].page.elems), " ")

\* C24: the rendering-required heuristic is evaluated on the visible text of
\* the directly fetched page, the content of script, style, nav, footer,
\* header and aside elements excluded: the page is marked as needing
\* JavaScript exactly when that text is shorter than 1000 characters or holds
\* one of the three phrases.
C24_HeuristicOnVisibleText ==
    DirectContent
        => (needs_javascript
              <=> \/ Len(VisibleText) < 1000
                  \/ ContainsIgnoringCase(VisibleText, "please enable javascript")
                  \/ ContainsIgnoringCase(VisibleText, "javascript is required")
                  \/ ContainsIgnoringCase(VisibleText, "this site requires javascript"))

\* a step of the tool get_full_resume_content
IsGetFullStep ==
    /\ agent'.calls # agent.calls
    /\ a_last'.op = "get_full_resume_content"

\* the step is a call of get_full_resume_content that returned the content
GetFullSucceeds ==
    /\ IsGetFullStep
    /\ StartsWith(a_last'.result, "Full resume content:")

\* C25: save_modified_resume writes nothing and returns the workflow error
\* unless get_full_resume_content has succeeded before; the retrieval flag
\* is raised by a successful get_full_resume_content only, and while no
\* resume has been loaded get_full_resume_content fails and leaves it unset.
C25_SaveNeedsRetrieval ==
    [][/\ (IsSaveStep /\ ~agent.full_content_retrieved)
            => disk' = disk /\ a_last'.result = NotRetrievedMsg
       /\ (agent'.full_content_retrieved /\ ~agent.full_content_retrieved)
            => GetFullSucceeds /\ agent.resume_content # None
       /\ (IsGetFullStep /\ agent.resume_content = None)
            => /\ StartsWith(a_last'.result, "Error: No resume has been loaded")
               /\ ~agent'.full_content_retrieved
       /\ (IsSaveStep /\ disk' # disk) => agent.full_content_retrieved]_vars

\* C25 witness: a complete, valid document was refused because the loaded
\* resume had not been retrieved
C25_Witness ==
    /\ a_last.op = "save_modified_resume"
    /\ a_last.new_content = ValidDoc
    /\ a_last.result = NotRetrievedMsg
    /\ agent.resume_content # None
    /\ ~agent.full_content_retrieved
    /\ a_hist = {}

\* the step in which agent.invoke ends and run() returns
IsInvokeEnd == agent.pc = "invoking" /\ agent'.pc = "idle"

\* a step of the tool save_user_info
IsSaveUserInfoStep ==
    /\ agent'.calls # agent.calls
    /\ a_last'.op = "save_user_info"

\* C26: run() persists the notes save_user_info gathered whether
\* agent.invoke returns or raises: with a non-empty conversation_notes, when
\* run() returns every note is in the notes of the stored profile of the
\* current user; save_user_info only buffers and writes nothing to the store.
C26_NotesPersistedOnBothOutcomes ==
    [][/\ (IsInvokeEnd /\ Len(agent.conversation_notes) > 0)
            => LET stored == load_profile(files', agent.current_profile.user_id)
                   notes  == agent.conversation_notes
               IN /\ a_last'.result.success \in BOOLEAN
                  /\ stored # None
                  /\ \A i \in 1..Len(notes) :
                         \E j \in 1..Len(stored.notes) : stored.notes[j] = notes[i]
       /\ IsSaveUserInfoStep
            => /\ files' = files
               /\ IsPrefix(agent.conversation_notes, agent'.conversation_notes)]_vars

\* C26 witness: agent.invoke raised after save_user_info had buffered notes,
\* and the stored profile holds them
C26_Witness ==
    /\ a_last.op = "invoke"
    /\ ~a_last.result.success
    /\ Len(agent.conversation_notes) = 2
    /\ load_profile(files, agent.current_profile.user_id) # None
    /\ load_profile(files, agent.current_profile.user_id).notes
         = <<"Skills: React, Docker", "Prefers bullets">>

\* the rendering of this call failed with an error other than ImportError
RenderFailed ==
    RenderAttempted /\ pw.pc = "raised" /\ pw.error # "ImportError"

\* C27: when the direct fetch produced content and the rendering was then
\* attempted and failed with an error other than the missing capability,
\* fetch_job_description does not fail: it returns the JobRecord built from
\* the direct-fetch HTML with an empty page title as fallback.
C27_RenderFailureKeepsDirectContent ==
    (f_pc = "done" /\ DirectContent /\ RenderFailed)
        => /\ f_result.kind = "return"
           /\ f_result = ParseJob(f_url, f_log[1].page, "")

\* the last save_modified_resume call wrote the resume file
SaveWrote ==
    /\ a_last.op = "save_modified_resume"
    /\ \/ StartsWith(a_last.result, "Resume saved successfully to ")
       \/ a_last.result = SaveErrorMsg("are the same file")

\* C28: every write of save_modified_resume comes after a successful
\* get_full_resume_content call that itself came after the most recent
\* successful read_resume: the content of the resume now loaded has been
\* retrieved.
C28_SaveNeedsFreshRetrieval == SaveWrote => a_fresh

\* the elements of a list
Elements(list) == {list[i] : i \in 1..Len(list)}

\* C29: after update_from_conversation(user_id, ...) load_profile(user_id)
\* gives a valid profile holding every supplied experience, skill and note,
\* whatever stood in the store before: where no file existed a bare profile
\* was created first, and where the file did not deserialize it is replaced
\* by a fresh profile holding only the supplied items.
C29_UpdateAlwaysLeavesProfile ==
    s_last.op = "update_from_conversation"
        => LET m      == s_last.merge
               stored == load_profile(files, s_last.user_id)
           IN /\ stored # None
              /\ Elements(m.experiences) \subseteq Elements(stored.experiences)
              /\ Elements(m.skills) \subseteq Elements(stored.skills)
              /\ Elements(m.notes) \subseteq Elements(stored.notes)
              /\ s_last.prior \in {Absent, Corrupt}
                    => /\ stored.user_id = s_last.user_id
                       /\ stored.name = ""
                       /\ stored.resume_files = <<>>
                       /\ stored.created_at = now
                       /\ Elements(stored.experiences) = Elements(m.experiences)
                       /\ Elements(stored.skills) = Elements(m.skills)
                       /\ Elements(stored.notes) = Elements(m.notes)
                       /\ NoDuplicates(stored.experiences)
                       /\ NoDuplicates(stored.skills)
                       /\ NoDuplicates(stored.notes)

\* C29 witness: the update met a file that did not deserialize and left a
\* fresh profile with the supplied skill and note
C29_Witness ==
    /\ s_last.op = "update_from_conversation"
    /\ s_last.prior = Corrupt
    /\ s_last.merge.skills = <<"Python", "Python">>
    /\ load_profile(files, s_last.user_id) # None
    /\ load_profile(files, s_last.user_id).skills = <<"Python">>
    /\ load_profile(files, s_last.user_id).notes = <<"n1">>

====
